---- MODULE Spec2Model ----
(***************************************************************************)
(* Model of the bulk-labelling scripts:                                    *)
(*   Step_2_Fetch_Policy_Details.py        harvest of quality rules        *)
(*   Step_3_Sync_Policy_Labels.py          diff + ledger + labels (rules)  *)
(*   Step_2_Fetch_Recon_Policy_Details.py  harvest of column mappings      *)
(*   Step_3_Sync_Recon_Policy_Labels.py    diff + ledger + labels (recon)  *)
(*                                                                         *)
(* Conventions.  A JSON field that is absent is the empty string, as       *)
(* item.get(name, "") makes it; item.value is the sequence << >> when the  *)
(* value object is absent or empty and <<u>> when it holds udfId u.        *)
(* Remote ids are naturals; str() of one is ToString.  Cells of the CSV    *)
(* ledger are strings.                                                     *)
(***************************************************************************)
EXTENDS Naturals, Sequences, FiniteSets, TLC

VARIABLES
    \* ---- the remote catalog service
    remote,               \* policy id -> [name, version, v1, live]
    nextId,               \* next row id the remote hands out
    edits,                \* number of remote edits so far
    \* ---- the ledger file (Policy_Rule_Details.csv / Recon_Policy_Rule_Details.csv)
    ledger,               \* sequence of CSV rows
    harvested,            \* Step 2 has written the ledger at least once
    \* ---- one run of Step 3 main()
    pc,                   \* "idle" | "compare" | "persist" | "label" | "summary"
    OVERRIDE_LABELS,      \* the override flag of this run
    existing_rows,
    existing_rule_ids,
    existing_mapping_keys,
    policy_labels,        \* pid -> (key -> original id, as str() prints it)
    policy_labels_order,  \* insertion order of the dict policy_labels
    policy_ids,
    policies_to_compare,  \* candidates not yet compared
    new_rules_added,
    new_mappings_added,
    to_label,             \* policies the label loop has still to visit
    pending,              \* the PUT that was sent and has not arrived: << >> or
                          \* <<[policy_id, payload, labels_added]>>
    total_labels_added,
    total_labels_skipped,
    policies_updated,
    \* ---- observations of the run (not program state)
    put_log,              \* labels created in the PUT payloads of this run
    diverged,             \* the rows a run persisted for a policy whose PUT then failed
    puts,                 \* the PUTs of this run: policy, labels added, outcome
    run_failed,           \* some fetch or PUT of this Step 3 run failed
    harvest_failed,       \* some fetch of the last Step 2 run failed
    ledger_before,        \* the ledger as it was when Step 2 last overwrote it
    synced,               \* a Step 3 run completed after the last Step 2 and edit
    edited,               \* the remote was edited while this Step 3 run was going
    after_ok,             \* the mode of the last run that ended without failure,
                          \* "none" once the remote or Step 2 changed something
    \* ---- inputs and outputs of the pure functions
    chk_a, chk_b,         \* two checks
    key_a, key_b,         \* their identity keys by Step 3 ("?" until computed)
    definition,           \* a policy definition handed to build_update_payload
    ledgerMap,            \* the label_mappings handed to it
    pass1, pass2,         \* results of the first and second reconciliation
    \* ---- the HTTP requests of the scripts, one by one
    req_pc,               \* where Step 2 and then Step 3 stand ("off": not followed)
    tasks,                \* coroutines handed to asyncio.gather that have not sent yet
    outstanding,          \* requests sent and not answered
    loop_todo,            \* the policies the running for loop has still to take
    \* ---- one comparison of two snapshots by find_new_rules
    diff_v1,              \* the version 1 snapshot
    diff_latest,          \* the latest snapshot
    diff_new,             \* what find_new_rules returned
    diff_pc               \* "off" | "fetched" | "compared"

remoteVars == <<remote, nextId, edits>>
fileVars   == <<ledger, harvested>>
runVars    == <<pc, OVERRIDE_LABELS, existing_rows, existing_rule_ids,
               existing_mapping_keys, policy_labels, policy_labels_order,
               policy_ids, policies_to_compare, new_rules_added,
               new_mappings_added, to_label, pending, total_labels_added, total_labels_skipped,
               policies_updated>>
obsVars    == <<put_log, diverged, puts, run_failed, harvest_failed, ledger_before, synced,
                edited, after_ok>>
keyVars    == <<chk_a, chk_b, key_a, key_b>>
recVars    == <<definition, ledgerMap, pass1, pass2>>
reqVars    == <<req_pc, tasks, outstanding, loop_todo>>
diffVars   == <<diff_v1, diff_latest, diff_new, diff_pc>>
vars       == <<remoteVars, fileVars, runVars, obsVars, keyVars, recVars, reqVars,
               diffVars>>

(***************************************************************************)
(* Bounds                                                                  *)
(***************************************************************************)
NumPolicies == 2
MaxEdits    == 2
MaxItems    == 2
NumRequestPolicies == 3

Policies == 1..NumPolicies

\* Rule expressions the model draws from.  The last two are a real
\* collision of the truncated digest.
Expressions == {"", "amount > 0", "amount > 29732", "amount > 51907"}
ColumnNames == {"", "amount", "currency"}
MeasurementTypes ==
    {"", "CUSTOM", "SQL_METRIC", "UDF_PREDICATE", "SIZE_CHECK",
     "MISSING_VALUES", "RANGE_MATCH"}
UdfValues == {<< >>, <<"">>, <<"7">>, <<"8">>}

(***************************************************************************)
(* Small helpers                                                           *)
(***************************************************************************)
Range(s) == {s[i] : i \in DOMAIN s}

\* d[k] = v on a Python dict
DictPut(d, k, v) == [x \in DOMAIN d \cup {k} |-> IF x = k THEN v ELSE d[x]]

EmptyDict == [x \in {} |-> x]

\* str(n) for a remote id
str(n) == ToString(n)

\* Python's None, which dict.get gives for a field the JSON lacks or has null
None == "None"

(***************************************************************************)
(* Identity key derivation                                                 *)
(***************************************************************************)

\* hashlib.md5(expression.encode()).hexdigest()[:8], tabulated
md5_hexdigest8(expression) ==
    CASE expression = ""               -> "d41d8cd9"
      [] expression = "amount > 0"     -> "f2fc802c"
      [] expression = "amount > 29732" -> "945ac16e"
      [] expression = "amount > 51907" -> "945ac16e"

\* compute_hash without its guard for an empty expression
compute_hash_unguarded(expression) == md5_hexdigest8(expression)

compute_hash(expression) ==
    IF expression = "" THEN "empty" ELSE md5_hexdigest8(expression)

\* value.get("udfId", "unknown") if value else "unknown"
udf_id_or_unknown(value) ==
    IF value = << >> THEN "unknown" ELSE value[1]

\* get_column_name, had it told checks without a udfId apart by their row id
get_column_name_by_row_id(item) ==
    LET measurement_type == item.measurementType
        column_name      == item.columnName
    IN  IF measurement_type = "CUSTOM"
          THEN "CUSTOM-" \o compute_hash(item.ruleExpression)
        ELSE IF measurement_type = "SQL_METRIC"
          THEN "SQL_METRIC-" \o compute_hash(item.ruleExpression)
        ELSE IF measurement_type = "UDF_PREDICATE"
          THEN "UDF_PREDICATE-" \o (IF item.value = << >> THEN str(item.id)
                                                          ELSE item.value[1])
        ELSE IF measurement_type = "SIZE_CHECK"
          THEN "SIZE_CHECK"
        ELSE IF column_name # "" /\ measurement_type # ""
          THEN measurement_type \o "-" \o column_name
        ELSE IF column_name # ""
          THEN column_name
        ELSE IF measurement_type # "" THEN measurement_type ELSE "UNKNOWN"

\* Step_3_Sync_Policy_Labels.get_column_name
get_column_name(item) ==
    LET measurement_type == item.measurementType
        column_name      == item.columnName
    IN  IF measurement_type = "CUSTOM"
          THEN "CUSTOM-" \o compute_hash(item.ruleExpression)
        ELSE IF measurement_type = "SQL_METRIC"
          THEN "SQL_METRIC-" \o compute_hash(item.ruleExpression)
        ELSE IF measurement_type = "UDF_PREDICATE"
          THEN "UDF_PREDICATE-" \o udf_id_or_unknown(item.value)
        ELSE IF measurement_type = "SIZE_CHECK"
          THEN "SIZE_CHECK"
        ELSE IF column_name # "" /\ measurement_type # ""
          THEN measurement_type \o "-" \o column_name
        ELSE IF column_name # ""
          THEN column_name
        ELSE IF measurement_type # "" THEN measurement_type ELSE "UNKNOWN"

\* Step_2_Fetch_Policy_Details.get_column_name
Step2_get_column_name(item) ==
    LET measurement_type == item.measurementType
        column_name      == item.columnName
    IN  IF measurement_type = "CUSTOM"
          THEN "CUSTOM-" \o compute_hash(item.ruleExpression)
        ELSE IF measurement_type = "SQL_METRIC"
          THEN "SQL_METRIC-" \o compute_hash(item.ruleExpression)
        ELSE IF measurement_type = "UDF_PREDICATE"
          THEN "UDF_PREDICATE-" \o udf_id_or_unknown(item.value)
        ELSE IF measurement_type = "SIZE_CHECK"
          THEN "SIZE_CHECK"
        ELSE column_name

\* Step_3_Sync_Recon_Policy_Labels.get_column_key
get_column_key(left_col, right_col) == left_col \o "_" \o right_col

(***************************************************************************)
(* Version diff engine (quality rules)                                     *)
(***************************************************************************)

\* Step_3_Sync_Policy_Labels.extract_items_info
extract_items_info(data) ==
    LET items == data.details.items
        ofType(t) == {i \in DOMAIN items : items[i].measurementType = t}
        other == {i \in DOMAIN items : items[i].measurementType \notin
                     {"CUSTOM", "SQL_METRIC", "UDF_PREDICATE", "SIZE_CHECK"}}
    IN  [column_names |->
            {items[i].columnName : i \in other} \ {""},
         custom_expressions |->
            {items[i].ruleExpression : i \in ofType("CUSTOM")} \ {""},
         sql_metric_expressions |->
            {items[i].ruleExpression : i \in ofType("SQL_METRIC")} \ {""},
         udf_predicate_ids |->
            {items[i].value[1] :
                i \in {j \in ofType("UDF_PREDICATE") : items[j].value # << >>}}
               \ {""},
         has_size_check |-> ofType("SIZE_CHECK") # {},
         items |-> items]

\* The is_new decision of find_new_rules for one item of the latest snapshot
is_new_rule(v1_info, item) ==
    LET measurement_type == item.measurementType
        column_name      == item.columnName
        rule_expression  == item.ruleExpression
    IN  IF measurement_type = "CUSTOM" THEN
            IF rule_expression # ""
               /\ rule_expression \notin v1_info.custom_expressions
              THEN TRUE
            ELSE IF v1_info.custom_expressions = {} /\ rule_expression # ""
              THEN TRUE
            ELSE FALSE
        ELSE IF measurement_type = "SQL_METRIC" THEN
            rule_expression # ""
            /\ rule_expression \notin v1_info.sql_metric_expressions
        ELSE IF measurement_type = "UDF_PREDICATE" THEN
            /\ item.value # << >>
            /\ item.value[1] # ""
            /\ item.value[1] \notin v1_info.udf_predicate_ids
        ELSE IF measurement_type = "SIZE_CHECK" THEN
            ~v1_info.has_size_check
        ELSE
            column_name # "" /\ column_name \notin v1_info.column_names

\* Step_3_Sync_Policy_Labels.find_new_rules
find_new_rules(v1_info, latest_info, policy_id, policy_name) ==
    LET isNew(item) == is_new_rule(v1_info, item)
        new == SelectSeq(latest_info.items, isNew)
    IN  [i \in 1..Len(new) |->
            [Policy_ID   |-> policy_id,
             Policy_Name |-> policy_name,
             Rule_ID     |-> new[i].id,
             Rule_Type   |-> new[i].measurementType,
             Column_Name |-> get_column_name(new[i])]]

(***************************************************************************)
(* Label reconciliation (quality rules)                                    *)
(***************************************************************************)
RECURSIVE Flatten(_)
Flatten(ss) == IF ss = << >> THEN << >> ELSE Head(ss) \o Flatten(Tail(ss))

\* existing_label_keys of build_update_payload
\* existing_label_keys, had it collected the values of the labels
label_values(labels) == {labels[i].value : i \in DOMAIN labels} \ {""}

\* existing_label_keys in both build_update_payload
label_keys(labels) == {labels[i].key : i \in DOMAIN labels} \ {""}

\* The turn of the loop, had normal mode added the label whatever the item
\* carries
update_item_always_adding(item, label_mappings) ==
    LET item_column_key == get_column_name(item)
        existing_labels == item.labels
        new_label == [key   |-> item_column_key,
                      value |-> label_mappings[item_column_key]]
    IN  IF OVERRIDE_LABELS THEN
            IF item_column_key \in DOMAIN label_mappings
              THEN [labels  |-> <<new_label>>,
                    added   |-> <<item_column_key>>,
                    skipped |-> << >>]
              ELSE [labels |-> << >>, added |-> << >>, skipped |-> << >>]
        ELSE
            IF item_column_key \in DOMAIN label_mappings
              THEN [labels  |-> Append(existing_labels, new_label),
                    added   |-> <<item_column_key>>,
                    skipped |-> << >>]
              ELSE [labels |-> existing_labels, added |-> << >>, skipped |-> << >>]

\* The turn of the loop, had override mode kept the labels it finds
update_item_keeping_labels(item, label_mappings) ==
    LET item_column_key == get_column_name(item)
        existing_labels == item.labels
        new_label == [key   |-> item_column_key,
                      value |-> label_mappings[item_column_key]]
    IN  IF item_column_key \in DOMAIN label_mappings THEN
            IF ~OVERRIDE_LABELS /\ item_column_key \in label_keys(existing_labels)
              THEN [labels  |-> existing_labels,
                    added   |-> << >>,
                    skipped |-> <<item_column_key>>]
              ELSE [labels  |-> Append(existing_labels, new_label),
                    added   |-> <<item_column_key>>,
                    skipped |-> << >>]
        ELSE [labels |-> existing_labels, added |-> << >>, skipped |-> << >>]

\* One turn of the loop of Step_3_Sync_Policy_Labels.build_update_payload:
\* the labels the item ends with, and what it adds to labels_added and
\* labels_skipped.
update_item(item, label_mappings) ==
    LET item_column_key == get_column_name(item)
        existing_labels == item.labels
        new_label == [key   |-> item_column_key,
                      value |-> label_mappings[item_column_key]]
    IN  IF OVERRIDE_LABELS THEN
            IF item_column_key \in DOMAIN label_mappings
              THEN [labels  |-> <<new_label>>,
                    added   |-> <<item_column_key>>,
                    skipped |-> << >>]
              ELSE [labels |-> << >>, added |-> << >>, skipped |-> << >>]
        ELSE
            IF item_column_key \in DOMAIN label_mappings THEN
                IF item_column_key \in label_keys(existing_labels)
                  THEN [labels  |-> existing_labels,
                        added   |-> << >>,
                        skipped |-> <<item_column_key>>]
                  ELSE [labels  |-> Append(existing_labels, new_label),
                        added   |-> <<item_column_key>>,
                        skipped |-> << >>]
            ELSE [labels |-> existing_labels, added |-> << >>, skipped |-> << >>]

\* The "rule" object of the payload of Step_3_Sync_Policy_Labels
payload_rule(rule) ==
    [id                  |-> rule.id,
     name                |-> rule.name,
     type                |-> IF rule.type = "" THEN "DATA_QUALITY" ELSE rule.type,
     scheduleType        |-> "RECENT",
     analyticsPipelineId |-> None]

\* Step_3_Sync_Policy_Labels.build_update_payload
build_update_payload(policy_data, label_mappings) ==
    LET items == policy_data.details.items
        upd   == [i \in DOMAIN items |-> update_item(items[i], label_mappings)]
        updated_items ==
            [i \in DOMAIN items |->
                [measurementType |-> items[i].measurementType,
                 columnName      |-> items[i].columnName,
                 labels          |-> upd[i].labels,
                 value           |-> items[i].value,
                 id              |-> items[i].id,
                 ruleExpression  |-> items[i].ruleExpression]]
    IN  [payload |-> [rule  |-> payload_rule(policy_data.rule),
                      items |-> updated_items],
         labels_added   |-> Flatten([i \in DOMAIN items |-> upd[i].added]),
         labels_skipped |-> Flatten([i \in DOMAIN items |-> upd[i].skipped])]

(***************************************************************************)
(* CSV operations (quality rules)                                          *)
(***************************************************************************)

\* The rows for which read_existing_csv stores policy_labels[policy_id][column_name]
labelled_rows(rows) ==
    SelectSeq(rows, LAMBDA row : row.Policy_ID # "" /\ row.Column_Name # ""
                                 /\ row.Rule_ID # "")

RECURSIVE load_labels(_, _)
load_labels(rows, acc) ==
    IF rows = << >> THEN acc
    ELSE LET row == Head(rows)
             old == IF row.Policy_ID \in DOMAIN acc
                      THEN acc[row.Policy_ID] ELSE EmptyDict
         IN  load_labels(Tail(rows),
                 DictPut(acc, row.Policy_ID,
                         DictPut(old, row.Column_Name, row.Rule_ID)))

RECURSIVE first_seen(_, _)
\* the keys of a dict in insertion order, for the pids of rows
first_seen(pids, seen) ==
    IF pids = << >> THEN << >>
    ELSE IF Head(pids) \in seen THEN first_seen(Tail(pids), seen)
    ELSE <<Head(pids)>> \o first_seen(Tail(pids), seen \cup {Head(pids)})

\* read_existing_csv, had it not collected the ids of the rows it reads
read_existing_csv_without_ids(csv) ==
    LET lab == labelled_rows(csv)
    IN  [rows |-> csv,
         existing_rule_ids |-> {},
         policy_labels |-> load_labels(lab, EmptyDict),
         order |-> first_seen([i \in DOMAIN lab |-> lab[i].Policy_ID], {})]

\* Step_3_Sync_Policy_Labels.read_existing_csv
read_existing_csv(csv) ==
    LET lab == labelled_rows(csv)
    IN  [rows |-> csv,
         existing_rule_ids |->
            {csv[i].Rule_ID : i \in DOMAIN csv} \ {""},
         policy_labels |-> load_labels(lab, EmptyDict),
         order |-> first_seen([i \in DOMAIN lab |-> lab[i].Policy_ID], {})]

\* Step_3_Sync_Policy_Labels.get_unique_policy_ids
get_unique_policy_ids(rows) == {rows[i].Policy_ID : i \in DOMAIN rows} \ {""}

\* csv.DictWriter on rows built in memory: every cell is written as text
csv_rows(rows) ==
    [i \in DOMAIN rows |->
        [Policy_ID   |-> rows[i].Policy_ID,
         Policy_Name |-> rows[i].Policy_Name,
         Rule_ID     |-> str(rows[i].Rule_ID),
         Rule_Type   |-> rows[i].Rule_Type,
         Column_Name |-> rows[i].Column_Name]]

\* Step_3_Sync_Policy_Labels.write_csv on existing_rows + new_rules_added
write_csv(old_rows, new_rows) == old_rows \o csv_rows(new_rows)

(***************************************************************************)
(* The remote catalog service                                              *)
(***************************************************************************)
Check(id, mt, col, expr, val, labels) ==
    [id |-> id, measurementType |-> mt, columnName |-> col,
     ruleExpression |-> expr, value |-> val, labels |-> labels]

\* Contents of the checks a remote edit may add to a quality policy
AddedChecks ==
    { Check(0, "CUSTOM", "", "amount > 29732", << >>, << >>),
      Check(0, "MISSING_VALUES", "currency", "", << >>, << >>),
      Check(0, "RANGE_MATCH", "amount", "", << >>, << >>),
      Check(0, "SIZE_CHECK", "", "", << >>, << >>) }

\* The quality policies as first published: policy 1 holds a column check
\* that carries a label of another tool and a CUSTOM check, policy 2 none.
InitialQuality ==
    [p \in Policies |->
        LET items ==
              IF p = 1
                THEN << Check(1, "MISSING_VALUES", "amount", "", << >>,
                              <<[key |-> "owner", value |-> "dq"]>>),
                        Check(2, "CUSTOM", "", "amount > 0", << >>, << >>) >>
                ELSE << >>
            details == [items |-> items, columnMappings |-> << >>]
        IN  [name    |-> "policy-" \o str(p),
             type    |-> "DATA_QUALITY",
             version |-> 1,
             scheduleType |-> IF p = 1 THEN "RECENT" ELSE "FULL",
             analyticsPipelineId |-> None,
             v1      |-> details,
             snapshots |-> << >>,
             live    |-> details]]

\* The policy a pid read from a CSV cell or a URL names
policy_of(pid) == CHOOSE p \in Policies : str(p) = pid

\* The body of GET .../{policy_id}?version=1
v1_response(p) ==
    [rule    |-> [id |-> p, name |-> remote[p].name, type |-> remote[p].type,
                  version |-> 1,
                  scheduleType |-> remote[p].scheduleType,
                  analyticsPipelineId |-> remote[p].analyticsPipelineId],
     details |-> remote[p].v1]

\* The body of GET .../{policy_id}
live_response(p) ==
    [rule    |-> [id |-> p, name |-> remote[p].name, type |-> remote[p].type,
                  version |-> remote[p].version,
                  scheduleType |-> remote[p].scheduleType,
                  analyticsPipelineId |-> remote[p].analyticsPipelineId],
     details |-> remote[p].live]

\* The body of GET .../{policy_id}?version=n for a version n the policy has
\* had: the remote keeps the definition it last held under every version
\* (snapshots[k] is that of version k + 1, once another version followed).
version_response(p, n) ==
    IF n = 1 THEN v1_response(p)
    ELSE IF n = remote[p].version THEN live_response(p)
    ELSE [rule    |-> [id |-> p, name |-> remote[p].name,
                       type |-> remote[p].type,
                       version |-> n,
                       scheduleType |-> remote[p].scheduleType,
                       analyticsPipelineId |-> remote[p].analyticsPipelineId],
          details |-> remote[p].snapshots[n - 1]]

\* The remote renumbers a list of rows from id n on; labels survive or not
renumber(rows, n, keep) ==
    [i \in DOMAIN rows |->
        [rows[i] EXCEPT !.id = n + i - 1,
                        !.labels = IF keep THEN @ ELSE << >>]]

\* What a check says, its id and labels left out
content(item) ==
    <<item.measurementType, item.columnName, item.ruleExpression, item.value>>

\* Somebody edits quality policy p on the remote: a new version, every check
\* gets a new id, and a check the policy does not hold yet may be added.  The
\* edit may come while a Step 3 run waits for an answer, between the answer
\* of a GET and the arrival of the PUT built from it included.
RemoteEditQuality(p, added, keep) ==
    /\ pc # "raised"
    /\ edits < MaxEdits
    /\ \A i \in DOMAIN added, j \in DOMAIN remote[p].live.items :
          content(added[i]) # content(remote[p].live.items[j])
    /\ LET old   == remote[p].live.items
           items == renumber(old \o added, nextId, keep)
       IN  /\ remote' = [remote EXCEPT
                 ![p].version = @ + 1,
                 ![p].snapshots = IF remote[p].version > 1
                                    THEN Append(@, remote[p].live) ELSE @,
                 ![p].live.items = items]
           /\ nextId' = nextId + Len(items)
    /\ edits' = edits + 1
    /\ synced' = FALSE
    /\ edited' = (pc # "idle")
    /\ after_ok' = "none"
    /\ UNCHANGED <<fileVars, runVars, put_log, diverged, puts, run_failed, ledger_before, harvest_failed,
                   keyVars, diffVars, recVars, reqVars>>

(***************************************************************************)
(* Step 2: harvest (quality rules)                                         *)
(***************************************************************************)

\* The rows Step_2_Fetch_Policy_Details.process_policies makes of one
\* response, as write_results prints them
harvest_rows(data) ==
    LET items == data.details.items
    IN  IF items = << >>
          THEN << [Policy_ID   |-> str(data.rule.id),
                   Policy_Name |-> data.rule.name,
                   Rule_ID     |-> "",
                   Rule_Type   |-> "",
                   Column_Name |-> ""] >>
          ELSE [i \in DOMAIN items |->
                  [Policy_ID   |-> str(data.rule.id),
                   Policy_Name |-> data.rule.name,
                   Rule_ID     |-> str(items[i].id),
                   Rule_Type   |-> items[i].measurementType,
                   Column_Name |-> Step2_get_column_name(items[i])]]

\* Step_2_Fetch_Policy_Details.process_policies: ok is the set of policies
\* whose fetch answered 200
process_policies(ids, ok) ==
    Flatten([i \in DOMAIN ids |->
                IF ids[i] \in ok THEN harvest_rows(v1_response(ids[i]))
                                 ELSE << >>])

\* Step_2_Fetch_Policy_Details.main; write_results opens the ledger with "w"
Harvest(ok, again) ==
    /\ pc = "idle"
    /\ again \/ ~harvested
    /\ ledger' = process_policies([i \in 1..NumPolicies |-> i], ok)
    /\ harvested' = TRUE
    /\ ledger_before' = ledger
    /\ synced' = FALSE
    /\ edited' = FALSE
    /\ after_ok' = "none"
    /\ harvest_failed' = (ok # Policies)
    /\ UNCHANGED <<remoteVars, runVars, put_log, diverged, puts, run_failed, keyVars, diffVars, recVars, reqVars>>

(***************************************************************************)
(* Step 3: sync (quality rules), Step_3_Sync_Policy_Labels.main            *)
(***************************************************************************)

\* fetch_rules_with_versions: str(id) -> version info, DATA_QUALITY rules only
policy_versions ==
    [pid \in {str(p) : p \in {q \in Policies : remote[q].type = "DATA_QUALITY"}}
        |-> [version |-> remote[policy_of(pid)].version,
             name    |-> remote[policy_of(pid)].name]]

\* main, up to the first snapshot fetch: the ledger is read and the policy
\* listing fetched; a failed listing raises out of main.
SyncStart(override, listing_ok) ==
    /\ pc = "idle"
    /\ get_unique_policy_ids(ledger) # {}
    /\ LET csv == read_existing_csv(ledger)
       IN  /\ existing_rows' = csv.rows
           /\ existing_rule_ids' = csv.existing_rule_ids
           /\ policy_labels' = csv.policy_labels
           /\ policy_labels_order' = csv.order
           /\ policy_ids' = get_unique_policy_ids(csv.rows)
    /\ OVERRIDE_LABELS' = override
    /\ new_rules_added' = << >>
    /\ total_labels_added' = 0
    /\ total_labels_skipped' = 0
    /\ policies_updated' = 0
    /\ to_label' = << >>
    /\ put_log' = {}
    /\ UNCHANGED <<diverged, pending>>
    /\ puts' = << >>
    /\ edited' = FALSE
    /\ \/ /\ listing_ok
          /\ policies_to_compare' =
                { [policy_id |-> pid,
                   version   |-> policy_versions[pid].version,
                   name      |-> policy_versions[pid].name] :
                  pid \in { x \in policy_ids' \cap DOMAIN policy_versions :
                              policy_versions[x].version > 1 } }
          /\ pc' = "compare"
          /\ run_failed' = FALSE
       \/ /\ ~listing_ok
          /\ policies_to_compare' = {}
          /\ pc' = "raised"
          /\ run_failed' = TRUE
    /\ UNCHANGED <<remoteVars, fileVars, existing_mapping_keys, new_mappings_added,
                   ledger_before, harvest_failed, synced, after_ok, keyVars, diffVars, recVars, reqVars>>

\* The exception of a failed listing ends the process.
SyncRaised ==
    /\ pc = "raised"
    /\ pc' = "idle"
    /\ UNCHANGED <<remoteVars, fileVars, OVERRIDE_LABELS, existing_rows, pending,
                   existing_rule_ids, existing_mapping_keys, new_mappings_added, policy_labels,
                   policy_labels_order, policy_ids, policies_to_compare,
                   new_rules_added, to_label, total_labels_added,
                   total_labels_skipped, policies_updated,
                   obsVars, keyVars, diffVars, recVars, reqVars>>

\* The loop "for rule in new_rules" of main: st holds existing_rule_ids (ids),
\* new_rules_added (added), policy_labels (labels) and its key order (order).
RECURSIVE add_new_rules(_, _, _)
add_new_rules(new_rules, pid, st) ==
    IF new_rules = << >> THEN st
    ELSE LET rule == Head(new_rules)
             old  == IF pid \in DOMAIN st.labels THEN st.labels[pid]
                                                 ELSE EmptyDict
         IN  IF str(rule.Rule_ID) \notin st.ids
               THEN add_new_rules(Tail(new_rules), pid,
                      [ids    |-> st.ids \cup {str(rule.Rule_ID)},
                       added  |-> Append(st.added, rule),
                       labels |-> DictPut(st.labels, pid,
                                    DictPut(old, rule.Column_Name,
                                            str(rule.Rule_ID))),
                       order  |-> IF pid \in DOMAIN st.labels THEN st.order
                                  ELSE Append(st.order, pid)])
               ELSE add_new_rules(Tail(new_rules), pid, st)

\* The turn of the loop, had it compared whatever snapshot it got: the
\* snapshot that failed counts as one without items
Compare_what_it_got(policy_info, v1_ok, latest_ok) ==
    /\ pc = "compare"
    /\ policy_info \in policies_to_compare
    /\ policies_to_compare' = policies_to_compare \ {policy_info}
    /\ LET pid     == policy_info.policy_id
           none    == [items |-> << >>, columnMappings |-> << >>]
           v1_info == extract_items_info(
                         IF v1_ok THEN v1_response(policy_of(pid))
                                  ELSE [v1_response(policy_of(pid))
                                          EXCEPT !.details = none])
           latest_info == extract_items_info(
                         IF latest_ok
                           THEN version_response(policy_of(pid),
                                                 policy_info.version)
                           ELSE [version_response(policy_of(pid),
                                                  policy_info.version)
                                   EXCEPT !.details = none])
           new_rules == find_new_rules(v1_info, latest_info, pid,
                                       policy_info.name)
           st == add_new_rules(new_rules, pid,
                   [ids    |-> existing_rule_ids,
                    added  |-> new_rules_added,
                    labels |-> policy_labels,
                    order  |-> policy_labels_order])
       IN  /\ existing_rule_ids' = st.ids
           /\ new_rules_added' = st.added
           /\ policy_labels' = st.labels
           /\ policy_labels_order' = st.order
    /\ run_failed' = (run_failed \/ ~(v1_ok /\ latest_ok))
    /\ UNCHANGED <<remoteVars, fileVars, pc, OVERRIDE_LABELS, existing_rows, pending,
                   existing_mapping_keys, new_mappings_added, policy_ids,
                   to_label, total_labels_added, total_labels_skipped,
                   policies_updated, put_log, diverged, puts, ledger_before, harvest_failed, edited,
                   synced, after_ok, keyVars, diffVars, recVars, reqVars>>

\* One turn of the loop "for policy_info in policies_to_compare": the two
\* snapshot fetches (version 1 and the version the listing gave, which the
\* remote may have left behind since), the diff, and the new rows.
Compare(policy_info, v1_ok, latest_ok) ==
    /\ pc = "compare"
    /\ policy_info \in policies_to_compare
    /\ policies_to_compare' = policies_to_compare \ {policy_info}
    /\ \/ /\ v1_ok /\ latest_ok
          /\ LET pid     == policy_info.policy_id
                 v1_info == extract_items_info(v1_response(policy_of(pid)))
                 latest_info ==
                     extract_items_info(
                        version_response(policy_of(pid), policy_info.version))
                 new_rules == find_new_rules(v1_info, latest_info, pid,
                                             policy_info.name)
                 st == add_new_rules(new_rules, pid,
                         [ids    |-> existing_rule_ids,
                          added  |-> new_rules_added,
                          labels |-> policy_labels,
                          order  |-> policy_labels_order])
             IN  /\ existing_rule_ids' = st.ids
                 /\ new_rules_added' = st.added
                 /\ policy_labels' = st.labels
                 /\ policy_labels_order' = st.order
          /\ UNCHANGED run_failed
       \/ /\ ~(v1_ok /\ latest_ok)
          /\ run_failed' = TRUE
          /\ UNCHANGED <<existing_rule_ids, new_rules_added, policy_labels,
                         policy_labels_order>>
    /\ UNCHANGED <<remoteVars, fileVars, pc, OVERRIDE_LABELS, existing_rows, pending,
                   existing_mapping_keys, new_mappings_added, policy_ids, to_label,
                   total_labels_added, total_labels_skipped, policies_updated,
                   put_log, diverged, puts, ledger_before, harvest_failed, edited, synced, after_ok, keyVars, diffVars, recVars, reqVars>>

\* The step after the comparison loop, had it left the ledger file alone
Persist_without_writing ==
    /\ pc = "compare"
    /\ policies_to_compare = {}
    /\ UNCHANGED ledger
    /\ pc' = "label"
    /\ to_label' = policy_labels_order
    /\ UNCHANGED <<remoteVars, harvested, OVERRIDE_LABELS, existing_rows, pending,
                   existing_rule_ids, existing_mapping_keys, new_mappings_added, policy_labels,
                   policy_labels_order, policy_ids, policies_to_compare,
                   new_rules_added, total_labels_added, total_labels_skipped,
                   policies_updated, obsVars, keyVars, diffVars, recVars, reqVars>>

\* "Update CSV if new rules found", once every candidate has been compared
Persist ==
    /\ pc = "compare"
    /\ policies_to_compare = {}
    /\ \/ /\ new_rules_added # << >>
          /\ ledger' = write_csv(existing_rows, new_rules_added)
       \/ /\ new_rules_added = << >>
          /\ UNCHANGED ledger
    /\ pc' = "label"
    /\ to_label' = policy_labels_order
    /\ UNCHANGED <<remoteVars, harvested, OVERRIDE_LABELS, existing_rows, pending,
                   existing_rule_ids, existing_mapping_keys, new_mappings_added, policy_labels,
                   policy_labels_order, policy_ids, policies_to_compare,
                   new_rules_added, total_labels_added, total_labels_skipped,
                   policies_updated, obsVars, keyVars, diffVars, recVars, reqVars>>

\* The turn of the label loop, had it sent the payload whether or not a label
\* was added
Label_always_put(fetch_ok) ==
    /\ pc = "label"
    /\ to_label # << >>
    /\ to_label' = Tail(to_label)
    /\ LET policy_id      == Head(to_label)
           p              == policy_of(policy_id)
           label_mappings == policy_labels[policy_id]
           res == build_update_payload(live_response(p), label_mappings)
       IN  \/ /\ ~fetch_ok
              /\ run_failed' = TRUE
              /\ UNCHANGED <<pc, pending, total_labels_skipped>>
           \/ /\ fetch_ok
              /\ total_labels_skipped' =
                     total_labels_skipped + Len(res.labels_skipped)
              /\ UNCHANGED run_failed
              /\ pc' = "put"
              /\ pending' = << [policy_id    |-> policy_id,
                                payload      |-> res.payload,
                                labels_added |-> res.labels_added] >>
    /\ UNCHANGED <<remoteVars, fileVars, OVERRIDE_LABELS, existing_rows,
                   existing_rule_ids, existing_mapping_keys, new_mappings_added, policy_labels,
                   policy_labels_order, policy_ids, policies_to_compare,
                   new_rules_added, total_labels_added, policies_updated,
                   put_log, diverged, puts, ledger_before, harvest_failed, edited,
                   synced, after_ok, keyVars, diffVars, recVars, reqVars>>

\* One turn of the loop "for policy_id, label_mappings in policy_labels.items()"
\* up to the PUT: the live definition is fetched and the payload built from
\* the answer.  With no label to add the turn ends here; otherwise the PUT is
\* sent and main waits for its answer.
Label(fetch_ok) ==
    /\ pc = "label"
    /\ to_label # << >>
    /\ to_label' = Tail(to_label)
    /\ LET policy_id      == Head(to_label)
           p              == policy_of(policy_id)
           label_mappings == policy_labels[policy_id]
           res == build_update_payload(live_response(p), label_mappings)
       IN  \/ /\ ~fetch_ok
              /\ run_failed' = TRUE
              /\ UNCHANGED <<pc, pending, total_labels_skipped>>
           \/ /\ fetch_ok
              /\ total_labels_skipped' =
                     total_labels_skipped + Len(res.labels_skipped)
              /\ UNCHANGED run_failed
              /\ \/ /\ res.labels_added = << >>
                    /\ UNCHANGED <<pc, pending>>
                 \/ /\ res.labels_added # << >>
                    /\ pc' = "put"
                    /\ pending' = << [policy_id    |-> policy_id,
                                      payload      |-> res.payload,
                                      labels_added |-> res.labels_added] >>
    /\ UNCHANGED <<remoteVars, fileVars, OVERRIDE_LABELS, existing_rows,
                   existing_rule_ids, existing_mapping_keys, new_mappings_added, policy_labels,
                   policy_labels_order, policy_ids, policies_to_compare,
                   new_rules_added, total_labels_added, policies_updated,
                   put_log, diverged, puts, ledger_before, harvest_failed, edited,
                   synced, after_ok, keyVars, diffVars, recVars, reqVars>>

\* The PUT of update_policy arrives at the remote, which by then may hold
\* another definition than the one the payload was built from; the answer
\* ends the turn of the loop.
LabelPut(put_ok) ==
    /\ pc = "put"
    /\ pc' = "label"
    /\ pending' = << >>
    /\ LET policy_id      == pending[1].policy_id
           p              == policy_of(policy_id)
           payload        == pending[1].payload
           labels_added   == pending[1].labels_added
           label_mappings == policy_labels[policy_id]
       IN  /\ put_log' = put_log \cup
                 { [policy_id |-> policy_id, key |-> k,
                    value |-> label_mappings[k]] :
                   k \in Range(labels_added) }
           /\ puts' = Append(puts, [policy_id |-> policy_id,
                                    labels    |-> Len(labels_added),
                                    ok        |-> put_ok])
           /\ \/ /\ put_ok
                 /\ remote' = [remote EXCEPT
                       ![p].live.items = payload.items,
                       ![p].scheduleType = payload.rule.scheduleType,
                       ![p].analyticsPipelineId =
                           payload.rule.analyticsPipelineId]
                 /\ total_labels_added' =
                       total_labels_added + Len(labels_added)
                 /\ policies_updated' = policies_updated + 1
                 /\ UNCHANGED <<run_failed, diverged>>
              \/ /\ ~put_ok
                 /\ run_failed' = TRUE
                 /\ diverged' = diverged \cup
                       { [policy_id |-> policy_id,
                          key       |-> new_rules_added[i].Column_Name,
                          value     |-> str(new_rules_added[i].Rule_ID)] :
                         i \in { j \in DOMAIN new_rules_added :
                                   new_rules_added[j].Policy_ID = policy_id } }
                 /\ UNCHANGED <<remote, total_labels_added, policies_updated>>
    /\ UNCHANGED <<nextId, edits, fileVars, OVERRIDE_LABELS, existing_rows,
                   existing_rule_ids, existing_mapping_keys, new_mappings_added, policy_labels,
                   policy_labels_order, policy_ids, policies_to_compare,
                   new_rules_added, to_label, total_labels_skipped,
                   ledger_before, harvest_failed, edited, synced, after_ok,
                   keyVars, diffVars, recVars, reqVars>>

\* The summary: the run is over.
Summary ==
    /\ pc = "label"
    /\ to_label = << >>
    /\ pc' = "idle"
    /\ synced' = ~edited
    /\ edited' = FALSE
    /\ after_ok' = IF run_failed \/ edited THEN "none"
                   ELSE IF OVERRIDE_LABELS THEN "override" ELSE "normal"
    /\ UNCHANGED <<remoteVars, fileVars, OVERRIDE_LABELS, existing_rows, pending,
                   existing_rule_ids, existing_mapping_keys, new_mappings_added, policy_labels,
                   policy_labels_order, policy_ids, policies_to_compare,
                   new_rules_added, to_label, total_labels_added,
                   total_labels_skipped, policies_updated,
                   put_log, diverged, puts, run_failed, ledger_before, harvest_failed, keyVars, diffVars, recVars, reqVars>>

(***************************************************************************)
(* The quality-rule pipeline: Step 2 once, then Step 3 runs and remote     *)
(* edits in any order.  SpecRerun also lets Step 2 run again.              *)
(***************************************************************************)
IdleRun ==
    /\ pc = "idle"
    /\ existing_rows = << >>
    /\ existing_rule_ids = {}
    /\ existing_mapping_keys = {}
    /\ policy_labels = EmptyDict
    /\ policy_labels_order = << >>
    /\ policy_ids = {}
    /\ policies_to_compare = {}
    /\ new_rules_added = << >>
    /\ new_mappings_added = << >>
    /\ to_label = << >>
    /\ pending = << >>
    /\ total_labels_added = 0
    /\ total_labels_skipped = 0
    /\ policies_updated = 0
    /\ put_log = {}
    /\ diverged = {}
    /\ puts = << >>
    /\ run_failed = FALSE
    /\ harvest_failed = FALSE
    /\ ledger_before = << >>
    /\ synced = FALSE
    /\ edited = FALSE
    /\ after_ok = "none"

\* No comparison of two snapshots is followed
NoDiff ==
    /\ diff_v1 = << >> /\ diff_latest = << >> /\ diff_new = << >>
    /\ diff_pc = "off"

\* The requests are not followed
NoRequests ==
    /\ req_pc = "off"
    /\ tasks = {} /\ outstanding = {} /\ loop_todo = {}

NoPureInputs ==
    /\ NoDiff
    /\ NoRequests
    /\ chk_a = << >> /\ chk_b = << >>
    /\ key_a = "?" /\ key_b = "?"
    /\ definition = << >> /\ ledgerMap = EmptyDict
    /\ pass1 = << >> /\ pass2 = << >>

Init ==
    /\ remote = InitialQuality
    /\ nextId = 3
    /\ edits = 0
    /\ ledger = << >>
    /\ harvested = FALSE
    /\ OVERRIDE_LABELS = FALSE
    /\ IdleRun
    /\ NoPureInputs

SyncStep ==
    \/ \E override \in BOOLEAN, listing_ok \in BOOLEAN :
          SyncStart(override, listing_ok)
    \/ SyncRaised
    \/ \E policy_info \in policies_to_compare, v1_ok, latest_ok \in BOOLEAN :
          Compare(policy_info, v1_ok, latest_ok)
    \/ Persist
    \/ \E fetch_ok \in BOOLEAN : Label(fetch_ok)
    \/ \E put_ok \in BOOLEAN : LabelPut(put_ok)
    \/ Summary

EditStep ==
    \E p \in Policies, keep \in BOOLEAN,
       added \in {<< >>} \cup {<<c>> : c \in AddedChecks} :
          RemoteEditQuality(p, added, keep)

Next ==
    \/ \E ok \in SUBSET Policies : Harvest(ok, FALSE)
    \/ SyncStep
    \/ EditStep

Spec == Init /\ [][Next]_vars

\* Another publication of the quality policies: policy 1 holds one column
\* check that carries a label of another tool, policy 2 none.
ColumnOnlyQuality ==
    [p \in Policies |->
        LET items ==
              IF p = 1
                THEN << Check(1, "MISSING_VALUES", "amount", "", << >>,
                              <<[key |-> "owner", value |-> "dq"]>>) >>
                ELSE << >>
            details == [items |-> items, columnMappings |-> << >>]
        IN  [name    |-> "policy-" \o str(p),
             type    |-> "DATA_QUALITY",
             version |-> 1,
             scheduleType |-> "RECENT",
             analyticsPipelineId |-> None,
             v1      |-> details,
             snapshots |-> << >>,
             live    |-> details]]

InitColumnOnly ==
    /\ remote = ColumnOnlyQuality
    /\ nextId = 2
    /\ edits = 0
    /\ ledger = << >>
    /\ harvested = FALSE
    /\ OVERRIDE_LABELS = FALSE
    /\ IdleRun
    /\ NoPureInputs

\* The quality pipeline on that publication
SpecColumnOnly == InitColumnOnly /\ [][Next]_vars

(***************************************************************************)
(* Properties of the quality-rule pipeline                                 *)
(***************************************************************************)

\* policy_labels as read_existing_csv loads it from the ledger on disk
LedgerMap == read_existing_csv(ledger).policy_labels

\* The ledger rows of (pid, key) that carry an id, in file order
rows_of(csv, pid, key) ==
    SelectSeq(csv, LAMBDA row : row.Policy_ID = pid /\ row.Column_Name = key
                                /\ row.Rule_ID # "")

\* C1: once the ledger maps (policyId, identityKey) to X, every later run
\* loads X for that pair and keeps X in policy_labels while it runs.
C1_LedgerMonotonicity ==
    [][ LET before == LedgerMap
            after  == LedgerMap'
        IN  /\ ledger' # ledger =>
                  \A pid \in DOMAIN before : \A k \in DOMAIN before[pid] :
                     /\ pid \in DOMAIN after
                     /\ k \in DOMAIN after[pid]
                     /\ after[pid][k] = before[pid][k]
            /\ (pc # "idle" /\ policy_labels' # policy_labels) =>
                  \A pid \in DOMAIN policy_labels :
                     \A k \in DOMAIN policy_labels[pid] :
                        policy_labels'[pid][k] = policy_labels[pid][k] ]_vars

\* C3: the ledger never holds two rows with the same (policyId, identityKey).
C3_NoDuplicateLedgerRows ==
    \A i, j \in DOMAIN ledger :
        ( /\ i # j
          /\ ledger[i].Column_Name # ""
          /\ ledger[i].Policy_ID = ledger[j].Policy_ID
          /\ ledger[i].Column_Name = ledger[j].Column_Name ) => FALSE

\* C6: the key Step 2 records in Column_Name for a check is the key Step 3
\* computes for that check, so that the lookup of reconciliation finds the row.
C6_HarvestKeyAgrees ==
    \A p \in Policies : \A i \in DOMAIN remote[p].v1.items :
        \A r \in DOMAIN ledger :
            ( /\ ledger[r].Policy_ID = str(p)
              /\ ledger[r].Rule_ID = str(remote[p].v1.items[i].id) )
            => ledger[r].Column_Name = get_column_name(remote[p].v1.items[i])

\* The policies the ledger knows
LedgerPolicies == {policy_of(pid) : pid \in get_unique_policy_ids(ledger)}

\* C7: after harvesting and a sync run in which every call succeeded, every
\* check of the live definition of every ledger-known policy carries a label
\* whose key is the identity key of the check.
C7_EveryCheckLabelled ==
    (pc = "idle" /\ synced /\ ~run_failed) =>
        \A p \in LedgerPolicies :
            \A i \in DOMAIN remote[p].live.items :
                LET item == remote[p].live.items[i]
                IN  get_column_name(item) \in label_keys(item.labels)

\* C8: every label a sync run puts into a write-back for key k of policy p
\* has as value the id first recorded in the ledger for (p, k).
C8_LabelPermanence ==
    \A l \in put_log :
        LET rows == rows_of(ledger, l.policy_id, l.key)
        IN  rows # << >> /\ l.value = rows[1].Rule_ID

\* The setting of OVERRIDE_LABELS as after_ok records it
mode == IF OVERRIDE_LABELS THEN "override" ELSE "normal"

\* C15 as claimed: a run that follows a run without failure, with the same
\* setting of the override flag and no edit in between, appends no row, issues
\* no PUT and leaves the ledger and the remote as they are.
C15_RerunConvergesAsClaimed ==
    [][ (pc # "idle" /\ after_ok = mode /\ edits' = edits) =>
            /\ ledger' = ledger
            /\ put_log' = put_log
            /\ remote' = remote ]_vars

\* C15, amended: such a run appends no row and leaves the ledger and the
\* remote as they are; in normal mode it issues no PUT, in override mode the
\* PUTs it issues store what the remote already holds.
C15_RerunConverges ==
    [][ (pc # "idle" /\ after_ok = mode /\ edits' = edits) =>
            /\ ledger' = ledger
            /\ remote' = remote
            /\ ~OVERRIDE_LABELS => put_log' = put_log ]_vars

\* An override run after an override run has labelled again the check that
\* Step 3 recorded.
C15_Witness ==
    /\ pc = "label" /\ to_label = << >>
    /\ OVERRIDE_LABELS /\ after_ok = "override" /\ ~run_failed
    /\ \E l \in put_log : l.key = "CUSTOM-945ac16e"

\* C26: after an override run in which no call failed, every label an item of
\* a policy the ledger knows carries on the remote is the label the ledger
\* implies for the key of the item.
C26_OverrideRemovalsReachRemote ==
    (pc = "idle" /\ after_ok = "override") =>
        \A p \in Policies :
            str(p) \in DOMAIN LedgerMap =>
                \A i \in DOMAIN remote[p].live.items :
                    LET item == remote[p].live.items[i]
                        k    == get_column_name(item)
                    IN  \A j \in DOMAIN item.labels :
                            /\ k \in DOMAIN LedgerMap[str(p)]
                            /\ item.labels[j] =
                                  [key |-> k, value |-> LedgerMap[str(p)][k]]

\* C14: no failure of a call ends a sync run: whatever fails, the run does not
\* end by an exception but goes on to its summary.
C14_NoFailureAborts == pc # "raised"

(***************************************************************************)
(* Reconciliation policies: diff engine, reconciliation, CSV operations    *)
(***************************************************************************)

\* Step_3_Sync_Recon_Policy_Labels.extract_mappings_info
extract_mappings_info(data) ==
    LET column_mappings == data.details.columnMappings
        items == data.details.items
    IN  [mapping_keys |->
            { get_column_key(column_mappings[i].leftColumnName,
                             column_mappings[i].rightColumnName) :
              i \in { j \in DOMAIN column_mappings :
                        /\ column_mappings[j].leftColumnName # ""
                        /\ column_mappings[j].rightColumnName # "" } },
         mappings   |-> column_mappings,
         recon_type |-> IF items # << >> THEN items[1].measurementType
                                         ELSE "EQUALITY"]

\* Step_3_Sync_Recon_Policy_Labels.find_new_mappings
find_new_mappings(v1_info, latest_info, policy_id, policy_name) ==
    LET isNew(mapping) ==
            /\ mapping.leftColumnName # ""
            /\ mapping.rightColumnName # ""
            /\ get_column_key(mapping.leftColumnName, mapping.rightColumnName)
                  \notin v1_info.mapping_keys
        new == SelectSeq(latest_info.mappings, isNew)
    IN  [i \in 1..Len(new) |->
            [Policy_ID         |-> policy_id,
             Policy_Name       |-> policy_name,
             Rule_ID           |-> new[i].id,
             Recon_Type        |-> latest_info.recon_type,
             Left_Column_Name  |-> new[i].leftColumnName,
             Right_Column_Name |-> new[i].rightColumnName]]

\* The turn of the loop, had it matched the mapping with the ledger by row id
update_mapping_by_row_id(mapping, label_mappings) ==
    LET mapping_key == get_column_key(mapping.leftColumnName,
                                      mapping.rightColumnName)
        existing_labels == mapping.labels
        new_label == [key |-> mapping_key, value |-> label_mappings[mapping_key]]
    IN  IF /\ mapping_key \in DOMAIN label_mappings
           /\ label_mappings[mapping_key] = str(mapping.id) THEN
            IF mapping_key \in label_keys(existing_labels)
              THEN [labels  |-> existing_labels,
                    added   |-> << >>,
                    skipped |-> <<mapping_key>>]
              ELSE [labels  |-> Append(existing_labels, new_label),
                    added   |-> <<mapping_key>>,
                    skipped |-> << >>]
        ELSE [labels |-> existing_labels, added |-> << >>, skipped |-> << >>]

\* One turn of the loop of Step_3_Sync_Recon_Policy_Labels.build_update_payload
update_mapping(mapping, label_mappings) ==
    LET mapping_key == get_column_key(mapping.leftColumnName,
                                      mapping.rightColumnName)
        existing_labels == mapping.labels
        new_label == [key |-> mapping_key, value |-> label_mappings[mapping_key]]
    IN  IF mapping_key \in DOMAIN label_mappings THEN
            IF mapping_key \in label_keys(existing_labels)
              THEN [labels  |-> existing_labels,
                    added   |-> << >>,
                    skipped |-> <<mapping_key>>]
              ELSE [labels  |-> Append(existing_labels, new_label),
                    added   |-> <<mapping_key>>,
                    skipped |-> << >>]
        ELSE [labels |-> existing_labels, added |-> << >>, skipped |-> << >>]

\* The "rule" object of the payload of Step_3_Sync_Recon_Policy_Labels
Recon_payload_rule(rule) ==
    [id                  |-> rule.id,
     name                |-> rule.name,
     type                |-> IF rule.type = "" THEN "EQUALITY" ELSE rule.type,
     scheduleType        |-> IF rule.scheduleType = "" THEN "FULL"
                                                      ELSE rule.scheduleType,
     analyticsPipelineId |-> rule.analyticsPipelineId]

\* Step_3_Sync_Recon_Policy_Labels.build_update_payload
Recon_build_update_payload(policy_data, label_mappings) ==
    LET column_mappings == policy_data.details.columnMappings
        upd == [i \in DOMAIN column_mappings |->
                  update_mapping(column_mappings[i], label_mappings)]
        updated_mappings ==
            [i \in DOMAIN column_mappings |->
                [id              |-> column_mappings[i].id,
                 leftColumnName  |-> column_mappings[i].leftColumnName,
                 rightColumnName |-> column_mappings[i].rightColumnName,
                 labels          |-> upd[i].labels]]
    IN  [payload |-> [rule     |-> Recon_payload_rule(policy_data.rule),
                      items    |->
                         [i \in DOMAIN policy_data.details.items |->
                            [measurementType |->
                               IF policy_data.details.items[i].measurementType = ""
                                 THEN "EQUALITY"
                                 ELSE policy_data.details.items[i].measurementType]],
                      mappings |-> updated_mappings],
         labels_added   |->
            Flatten([i \in DOMAIN column_mappings |-> upd[i].added]),
         labels_skipped |->
            Flatten([i \in DOMAIN column_mappings |-> upd[i].skipped])]

\* The rows for which Step_3_Sync_Recon_Policy_Labels.read_existing_csv
\* records a mapping key
keyed_rows(rows) ==
    SelectSeq(rows, LAMBDA row : row.Policy_ID # ""
                                 /\ row.Left_Column_Name # ""
                                 /\ row.Right_Column_Name # "")

RECURSIVE Recon_load_labels(_, _)
Recon_load_labels(rows, acc) ==
    IF rows = << >> THEN acc
    ELSE LET row == Head(rows)
             old == IF row.Policy_ID \in DOMAIN acc
                      THEN acc[row.Policy_ID] ELSE EmptyDict
             mapping_key == get_column_key(row.Left_Column_Name,
                                           row.Right_Column_Name)
         IN  Recon_load_labels(Tail(rows),
                 DictPut(acc, row.Policy_ID,
                         DictPut(old, mapping_key, row.Rule_ID)))

\* read_existing_csv, had it tracked the rows it holds by Rule_ID as the
\* quality-rule script does
Recon_read_existing_csv_by_rule_id(csv) ==
    LET keyed == keyed_rows(csv)
        lab   == SelectSeq(keyed, LAMBDA row : row.Rule_ID # "")
    IN  [rows |-> csv,
         existing_mapping_keys |->
            { keyed[i].Policy_ID \o "_" \o keyed[i].Rule_ID :
              i \in DOMAIN keyed },
         policy_labels |-> Recon_load_labels(lab, EmptyDict),
         order |-> first_seen([i \in DOMAIN lab |-> lab[i].Policy_ID], {})]

\* Step_3_Sync_Recon_Policy_Labels.read_existing_csv
Recon_read_existing_csv(csv) ==
    LET keyed == keyed_rows(csv)
        lab   == SelectSeq(keyed, LAMBDA row : row.Rule_ID # "")
    IN  [rows |-> csv,
         existing_mapping_keys |->
            { keyed[i].Policy_ID \o "_" \o
                get_column_key(keyed[i].Left_Column_Name,
                               keyed[i].Right_Column_Name) :
              i \in DOMAIN keyed },
         policy_labels |-> Recon_load_labels(lab, EmptyDict),
         order |-> first_seen([i \in DOMAIN lab |-> lab[i].Policy_ID], {})]

\* csv.DictWriter on mapping rows built in memory
Recon_csv_rows(rows) ==
    [i \in DOMAIN rows |-> [rows[i] EXCEPT !.Rule_ID = str(@)]]

\* Step_3_Sync_Recon_Policy_Labels.write_csv on existing_rows + new_mappings_added
Recon_write_csv(old_rows, new_rows) == old_rows \o Recon_csv_rows(new_rows)

(***************************************************************************)
(* Reconciliation policies on the remote, and Step 2                       *)
(***************************************************************************)
Mapping(id, left, right, labels) ==
    [id |-> id, leftColumnName |-> left, rightColumnName |-> right,
     labels |-> labels]

\* Contents of the column mappings a remote edit may add
AddedMappings ==
    { Mapping(0, "amount", "total", << >>),
      Mapping(0, "a", "b_c", << >>),
      Mapping(0, "currency", "", << >>) }

\* The reconciliation policies as first published
InitialRecon ==
    [p \in Policies |->
        LET mappings ==
              IF p = 1
                THEN << Mapping(1, "id", "id",
                                <<[key |-> "owner", value |-> "dq"]>>),
                        Mapping(2, "a_b", "c", << >>) >>
                ELSE << >>
            details == [items |-> <<[measurementType |-> "EQUALITY"]>>,
                        columnMappings |-> mappings]
        IN  [name    |-> "recon-" \o str(p),
             type    |-> "EQUALITY",
             version |-> 1,
             scheduleType |-> IF p = 1 THEN "RECENT" ELSE "FULL",
             analyticsPipelineId |-> None,
             v1      |-> details,
             snapshots |-> << >>,
             live    |-> details]]

\* Somebody edits reconciliation policy p on the remote: a new version, every
\* mapping gets a new id, and a mapping the policy does not hold may be added.
\* The edit may come while a Step 3 run waits for an answer.
RemoteEditRecon(p, added, keep) ==
    /\ pc # "raised"
    /\ edits < MaxEdits
    /\ \A i \in DOMAIN added, j \in DOMAIN remote[p].live.columnMappings :
          LET m == remote[p].live.columnMappings[j]
          IN  <<added[i].leftColumnName, added[i].rightColumnName>>
                 # <<m.leftColumnName, m.rightColumnName>>
    /\ LET old == remote[p].live.columnMappings
           mappings == renumber(old \o added, nextId, keep)
       IN  /\ remote' = [remote EXCEPT
                 ![p].version = @ + 1,
                 ![p].snapshots = IF remote[p].version > 1
                                    THEN Append(@, remote[p].live) ELSE @,
                 ![p].live.columnMappings = mappings]
           /\ nextId' = nextId + Len(mappings)
    /\ edits' = edits + 1
    /\ synced' = FALSE
    /\ edited' = (pc # "idle")
    /\ after_ok' = "none"
    /\ UNCHANGED <<fileVars, runVars, put_log, diverged, puts, run_failed, harvest_failed,
                   ledger_before, keyVars, diffVars, recVars, reqVars>>

\* The rows Step_2_Fetch_Recon_Policy_Details.process_policies makes of one
\* response, as write_results prints them
Recon_harvest_rows(data) ==
    LET items == data.details.items
        recon_type == IF items # << >> THEN items[1].measurementType ELSE ""
        column_mappings == data.details.columnMappings
    IN  IF column_mappings = << >>
          THEN << [Policy_ID         |-> str(data.rule.id),
                   Policy_Name       |-> data.rule.name,
                   Rule_ID           |-> "",
                   Recon_Type        |-> recon_type,
                   Left_Column_Name  |-> "",
                   Right_Column_Name |-> ""] >>
          ELSE [i \in DOMAIN column_mappings |->
                  [Policy_ID         |-> str(data.rule.id),
                   Policy_Name       |-> data.rule.name,
                   Rule_ID           |-> str(column_mappings[i].id),
                   Recon_Type        |-> recon_type,
                   Left_Column_Name  |-> column_mappings[i].leftColumnName,
                   Right_Column_Name |-> column_mappings[i].rightColumnName]]

\* Step_2_Fetch_Recon_Policy_Details.process_policies
Recon_process_policies(ids, ok) ==
    Flatten([i \in DOMAIN ids |->
                IF ids[i] \in ok THEN Recon_harvest_rows(v1_response(ids[i]))
                                 ELSE << >>])

\* Step_2_Fetch_Recon_Policy_Details.main: the file is written anew (again:
\* Step 2 is run once more)
ReconHarvest(ok, again) ==
    /\ pc = "idle"
    /\ again \/ ~harvested
    /\ ledger' = Recon_process_policies([i \in 1..NumPolicies |-> i], ok)
    /\ harvested' = TRUE
    /\ ledger_before' = ledger
    /\ synced' = FALSE
    /\ edited' = FALSE
    /\ after_ok' = "none"
    /\ harvest_failed' = (ok # Policies)
    /\ UNCHANGED <<remoteVars, runVars, put_log, diverged, puts, run_failed, keyVars, diffVars, recVars, reqVars>>

(***************************************************************************)
(* Step 3: sync (reconciliation), Step_3_Sync_Recon_Policy_Labels.main     *)
(***************************************************************************)

\* fetch_rules_with_versions: str(id) -> version info, EQUALITY rules only
Recon_policy_versions ==
    [pid \in {str(p) : p \in {q \in Policies : remote[q].type = "EQUALITY"}}
        |-> [version |-> remote[policy_of(pid)].version,
             name    |-> remote[policy_of(pid)].name]]

\* main, up to the first snapshot fetch
ReconSyncStart(listing_ok) ==
    /\ pc = "idle"
    /\ get_unique_policy_ids(ledger) # {}
    /\ LET csv == Recon_read_existing_csv(ledger)
       IN  /\ existing_rows' = csv.rows
           /\ existing_mapping_keys' = csv.existing_mapping_keys
           /\ policy_labels' = csv.policy_labels
           /\ policy_labels_order' = csv.order
           /\ policy_ids' = get_unique_policy_ids(csv.rows)
    /\ new_mappings_added' = << >>
    /\ total_labels_added' = 0
    /\ total_labels_skipped' = 0
    /\ policies_updated' = 0
    /\ to_label' = << >>
    /\ put_log' = {}
    /\ UNCHANGED <<diverged, pending>>
    /\ puts' = << >>
    /\ edited' = FALSE
    /\ \/ /\ listing_ok
          /\ policies_to_compare' =
                { [policy_id |-> pid,
                   version   |-> Recon_policy_versions[pid].version,
                   name      |-> Recon_policy_versions[pid].name] :
                  pid \in { x \in policy_ids' \cap DOMAIN Recon_policy_versions :
                              Recon_policy_versions[x].version > 1 } }
          /\ pc' = "compare"
          /\ run_failed' = FALSE
       \/ /\ ~listing_ok
          /\ policies_to_compare' = {}
          /\ pc' = "raised"
          /\ run_failed' = TRUE
    /\ UNCHANGED <<remoteVars, fileVars, OVERRIDE_LABELS, existing_rule_ids,
                   new_rules_added, ledger_before, harvest_failed, synced, after_ok,
                   keyVars, diffVars, recVars, reqVars>>

\* The loop "for mapping in new_mappings" of main: st holds
\* existing_mapping_keys (keys), new_mappings_added (added), policy_labels
\* (labels) and its key order (order).
RECURSIVE add_new_mappings(_, _, _)
add_new_mappings(new_mappings, pid, st) ==
    IF new_mappings = << >> THEN st
    ELSE LET mapping == Head(new_mappings)
             mapping_key == get_column_key(mapping.Left_Column_Name,
                                           mapping.Right_Column_Name)
             full_key == pid \o "_" \o mapping_key
             old == IF pid \in DOMAIN st.labels THEN st.labels[pid]
                                                ELSE EmptyDict
         IN  IF full_key \notin st.keys
               THEN add_new_mappings(Tail(new_mappings), pid,
                      [keys   |-> st.keys \cup {full_key},
                       added  |-> Append(st.added, mapping),
                       labels |-> DictPut(st.labels, pid,
                                    DictPut(old, mapping_key,
                                            str(mapping.Rule_ID))),
                       order  |-> IF pid \in DOMAIN st.labels THEN st.order
                                  ELSE Append(st.order, pid)])
               ELSE add_new_mappings(Tail(new_mappings), pid, st)

\* One turn of the loop "for policy_info in policies_to_compare"
ReconCompare(policy_info, v1_ok, latest_ok) ==
    /\ pc = "compare"
    /\ policy_info \in policies_to_compare
    /\ policies_to_compare' = policies_to_compare \ {policy_info}
    /\ \/ /\ v1_ok /\ latest_ok
          /\ LET pid     == policy_info.policy_id
                 v1_info == extract_mappings_info(v1_response(policy_of(pid)))
                 latest_info ==
                     extract_mappings_info(
                        version_response(policy_of(pid), policy_info.version))
                 new_mappings == find_new_mappings(v1_info, latest_info, pid,
                                                   policy_info.name)
                 st == add_new_mappings(new_mappings, pid,
                         [keys   |-> existing_mapping_keys,
                          added  |-> new_mappings_added,
                          labels |-> policy_labels,
                          order  |-> policy_labels_order])
             IN  /\ existing_mapping_keys' = st.keys
                 /\ new_mappings_added' = st.added
                 /\ policy_labels' = st.labels
                 /\ policy_labels_order' = st.order
          /\ UNCHANGED run_failed
       \/ /\ ~(v1_ok /\ latest_ok)
          /\ run_failed' = TRUE
          /\ UNCHANGED <<existing_mapping_keys, new_mappings_added,
                         policy_labels, policy_labels_order>>
    /\ UNCHANGED <<remoteVars, fileVars, pc, OVERRIDE_LABELS, existing_rows, pending,
                   existing_rule_ids, new_rules_added, policy_ids, to_label,
                   total_labels_added, total_labels_skipped, policies_updated,
                   put_log, diverged, puts, ledger_before, harvest_failed, edited, synced, after_ok,
                   keyVars, diffVars, recVars, reqVars>>

\* "Update CSV if new mappings found"
ReconPersist ==
    /\ pc = "compare"
    /\ policies_to_compare = {}
    /\ \/ /\ new_mappings_added # << >>
          /\ ledger' = Recon_write_csv(existing_rows, new_mappings_added)
       \/ /\ new_mappings_added = << >>
          /\ UNCHANGED ledger
    /\ pc' = "label"
    /\ to_label' = policy_labels_order
    /\ UNCHANGED <<remoteVars, harvested, OVERRIDE_LABELS, existing_rows, pending,
                   existing_rule_ids, existing_mapping_keys, policy_labels,
                   policy_labels_order, policy_ids, policies_to_compare,
                   new_rules_added, new_mappings_added, total_labels_added,
                   total_labels_skipped, policies_updated, obsVars,
                   keyVars, diffVars, recVars, reqVars>>

\* One turn of the loop "for policy_id, label_mappings in policy_labels.items()"
\* up to the PUT: the live definition is fetched and the payload built from
\* the answer.
ReconLabel(fetch_ok) ==
    /\ pc = "label"
    /\ to_label # << >>
    /\ to_label' = Tail(to_label)
    /\ LET policy_id      == Head(to_label)
           p              == policy_of(policy_id)
           label_mappings == policy_labels[policy_id]
           res == Recon_build_update_payload(live_response(p), label_mappings)
       IN  \/ /\ ~fetch_ok
              /\ run_failed' = TRUE
              /\ UNCHANGED <<pc, pending, total_labels_skipped>>
           \/ /\ fetch_ok
              /\ total_labels_skipped' =
                     total_labels_skipped + Len(res.labels_skipped)
              /\ UNCHANGED run_failed
              /\ \/ /\ res.labels_added = << >>
                    /\ UNCHANGED <<pc, pending>>
                 \/ /\ res.labels_added # << >>
                    /\ pc' = "put"
                    /\ pending' = << [policy_id    |-> policy_id,
                                      payload      |-> res.payload,
                                      labels_added |-> res.labels_added] >>
    /\ UNCHANGED <<remoteVars, fileVars, OVERRIDE_LABELS, existing_rows,
                   existing_rule_ids, existing_mapping_keys, new_mappings_added, policy_labels,
                   policy_labels_order, policy_ids, policies_to_compare,
                   new_rules_added, total_labels_added, policies_updated,
                   put_log, diverged, puts, ledger_before, harvest_failed, edited,
                   synced, after_ok, keyVars, diffVars, recVars, reqVars>>

\* The PUT of update_policy arrives at the remote and is answered.
ReconLabelPut(put_ok) ==
    /\ pc = "put"
    /\ pc' = "label"
    /\ pending' = << >>
    /\ LET policy_id      == pending[1].policy_id
           p              == policy_of(policy_id)
           payload        == pending[1].payload
           labels_added   == pending[1].labels_added
           label_mappings == policy_labels[policy_id]
       IN  /\ put_log' = put_log \cup
                 { [policy_id |-> policy_id, key |-> k,
                    value |-> label_mappings[k]] :
                   k \in Range(labels_added) }
           /\ puts' = Append(puts, [policy_id |-> policy_id,
                                    labels    |-> Len(labels_added),
                                    ok        |-> put_ok])
           /\ \/ /\ put_ok
                 /\ remote' = [remote EXCEPT
                       ![p].live.columnMappings = payload.mappings,
                       ![p].scheduleType = payload.rule.scheduleType,
                       ![p].analyticsPipelineId =
                           payload.rule.analyticsPipelineId]
                 /\ total_labels_added' =
                       total_labels_added + Len(labels_added)
                 /\ policies_updated' = policies_updated + 1
                 /\ UNCHANGED <<run_failed, diverged>>
              \/ /\ ~put_ok
                 /\ run_failed' = TRUE
                 /\ diverged' = diverged \cup
                       { [policy_id |-> policy_id,
                          key       |-> get_column_key(
                                         new_mappings_added[i].Left_Column_Name,
                                         new_mappings_added[i].Right_Column_Name),
                          value     |-> str(new_mappings_added[i].Rule_ID)] :
                         i \in { j \in DOMAIN new_mappings_added :
                                   new_mappings_added[j].Policy_ID = policy_id } }
                 /\ UNCHANGED <<remote, total_labels_added, policies_updated>>
    /\ UNCHANGED <<nextId, edits, fileVars, OVERRIDE_LABELS, existing_rows,
                   existing_rule_ids, existing_mapping_keys, new_mappings_added, policy_labels,
                   policy_labels_order, policy_ids, policies_to_compare,
                   new_rules_added, to_label, total_labels_skipped,
                   ledger_before, harvest_failed, edited, synced, after_ok,
                   keyVars, diffVars, recVars, reqVars>>

(***************************************************************************)
(* The reconciliation pipeline: Step 2 once, then Step 3 runs and remote   *)
(* edits in any order.  SyncRaised and Summary are the same in both mains. *)
(***************************************************************************)
InitRecon ==
    /\ remote = InitialRecon
    /\ nextId = 3
    /\ edits = 0
    /\ ledger = << >>
    /\ harvested = FALSE
    /\ OVERRIDE_LABELS = FALSE
    /\ IdleRun
    /\ NoPureInputs

NextRecon ==
    \/ \E ok \in SUBSET Policies : ReconHarvest(ok, FALSE)
    \/ \E listing_ok \in BOOLEAN : ReconSyncStart(listing_ok)
    \/ SyncRaised
    \/ \E policy_info \in policies_to_compare, v1_ok, latest_ok \in BOOLEAN :
          ReconCompare(policy_info, v1_ok, latest_ok)
    \/ ReconPersist
    \/ \E fetch_ok \in BOOLEAN : ReconLabel(fetch_ok)
    \/ \E put_ok \in BOOLEAN : ReconLabelPut(put_ok)
    \/ Summary
    \/ \E p \in Policies, keep \in BOOLEAN,
          added \in {<< >>} \cup {<<m>> : m \in AddedMappings} :
             RemoteEditRecon(p, added, keep)

SpecRecon == InitRecon /\ [][NextRecon]_vars

\* policy_labels as the recon read_existing_csv loads it from the ledger
ReconLedgerMap == Recon_read_existing_csv(ledger).policy_labels

\* C2: in the reconciliation pipeline, once (policyId, left_right key) is
\* recorded with originalId X, every later run loads X for the pair, keeps X
\* while it runs, and writes X as the value of the labels it creates.
C2_ReconLedgerMonotonicity ==
    [][ LET before == ReconLedgerMap
            after  == ReconLedgerMap'
        IN  /\ ledger' # ledger =>
                  \A pid \in DOMAIN before : \A k \in DOMAIN before[pid] :
                     /\ pid \in DOMAIN after
                     /\ k \in DOMAIN after[pid]
                     /\ after[pid][k] = before[pid][k]
            /\ (pc # "idle" /\ policy_labels' # policy_labels) =>
                  \A pid \in DOMAIN policy_labels :
                     \A k \in DOMAIN policy_labels[pid] :
                        policy_labels'[pid][k] = policy_labels[pid][k]
            /\ \A l \in put_log' \ put_log :
                  /\ l.policy_id \in DOMAIN after
                  /\ l.key \in DOMAIN after[l.policy_id]
                  /\ l.value = after[l.policy_id][l.key] ]_vars

\* A run labels with the id a previous run recorded for ("amount", "total"),
\* the remote having reassigned the id of the mapping since.
C2_Witness ==
    /\ pc = "label"
    /\ \E l \in put_log : \E i \in DOMAIN remote[policy_of(l.policy_id)].live.columnMappings :
          LET m == remote[policy_of(l.policy_id)].live.columnMappings[i]
          IN  /\ l.key = "amount_total"
              /\ get_column_key(m.leftColumnName, m.rightColumnName) = l.key
              /\ str(m.id) # l.value
              /\ \E j \in DOMAIN m.labels : m.labels[j] = [key |-> l.key, value |-> l.value]

(***************************************************************************)
(* Both sync pipelines: the remote holds quality policies and the quality  *)
(* scripts run, or it holds reconciliation policies and the reconciliation *)
(* scripts run.                                                            *)
(***************************************************************************)
is_quality == \A p \in Policies : remote[p].type = "DATA_QUALITY"

InitSync == Init \/ InitRecon

NextSync ==
    \/ \E ok \in SUBSET Policies : is_quality /\ Harvest(ok, FALSE)
    \/ \E override \in BOOLEAN, listing_ok \in BOOLEAN :
          is_quality /\ SyncStart(override, listing_ok)
    \/ \E policy_info \in policies_to_compare, v1_ok, latest_ok \in BOOLEAN :
          is_quality /\ Compare(policy_info, v1_ok, latest_ok)
    \/ is_quality /\ Persist
    \/ \E fetch_ok \in BOOLEAN : is_quality /\ Label(fetch_ok)
    \/ \E put_ok \in BOOLEAN : is_quality /\ LabelPut(put_ok)
    \/ is_quality /\ EditStep
    \/ \E ok \in SUBSET Policies : ~is_quality /\ ReconHarvest(ok, FALSE)
    \/ \E listing_ok \in BOOLEAN : ~is_quality /\ ReconSyncStart(listing_ok)
    \/ \E policy_info \in policies_to_compare, v1_ok, latest_ok \in BOOLEAN :
          ~is_quality /\ ReconCompare(policy_info, v1_ok, latest_ok)
    \/ ~is_quality /\ ReconPersist
    \/ \E fetch_ok \in BOOLEAN : ~is_quality /\ ReconLabel(fetch_ok)
    \/ \E put_ok \in BOOLEAN : ~is_quality /\ ReconLabelPut(put_ok)
    \/ \E p \in Policies, keep \in BOOLEAN,
          added \in {<< >>} \cup {<<m>> : m \in AddedMappings} :
             ~is_quality /\ RemoteEditRecon(p, added, keep)
    \/ SyncRaised
    \/ Summary

SpecSync == InitSync /\ [][NextSync]_vars

\* The whole pipeline of either kind run again and again, every call
\* answering: Step 2 has no memory of an earlier run and may run whenever the
\* pipeline is idle.
NextRerun ==
    \/ is_quality /\ Harvest(Policies, TRUE)
    \/ \E override \in BOOLEAN : is_quality /\ SyncStart(override, TRUE)
    \/ \E policy_info \in policies_to_compare :
          is_quality /\ Compare(policy_info, TRUE, TRUE)
    \/ is_quality /\ Persist
    \/ is_quality /\ Label(TRUE)
    \/ is_quality /\ LabelPut(TRUE)
    \/ is_quality /\ EditStep
    \/ ~is_quality /\ ReconHarvest(Policies, TRUE)
    \/ ~is_quality /\ ReconSyncStart(TRUE)
    \/ \E policy_info \in policies_to_compare :
          ~is_quality /\ ReconCompare(policy_info, TRUE, TRUE)
    \/ ~is_quality /\ ReconPersist
    \/ ~is_quality /\ ReconLabel(TRUE)
    \/ ~is_quality /\ ReconLabelPut(TRUE)
    \/ \E p \in Policies, keep \in BOOLEAN,
          added \in {<< >>} \cup {<<m>> : m \in AddedMappings} :
             ~is_quality /\ RemoteEditRecon(p, added, keep)
    \/ Summary

SpecRerun == InitSync /\ [][NextRerun]_vars

\* C4: when Step 2 and then Step 3 have run again, every row that was in the
\* ledger before the re-run is still in it, with the same original id.
C4_RerunKeepsRows ==
    (pc = "idle" /\ synced /\ ~harvest_failed /\ ~run_failed) =>
        \A i \in DOMAIN ledger_before :
            \E j \in DOMAIN ledger :
                /\ ledger[j].Policy_ID = ledger_before[i].Policy_ID
                /\ ledger[j].Rule_ID = ledger_before[i].Rule_ID
                /\ IF is_quality
                     THEN ledger[j].Column_Name = ledger_before[i].Column_Name
                     ELSE /\ ledger[j].Left_Column_Name =
                                ledger_before[i].Left_Column_Name
                          /\ ledger[j].Right_Column_Name =
                                ledger_before[i].Right_Column_Name


\* The keys and labels of the live items or mappings of policy p in remote r
live_keyed(r, p) ==
    IF r[p].type = "DATA_QUALITY"
      THEN [i \in DOMAIN r[p].live.items |->
              [key    |-> get_column_name(r[p].live.items[i]),
               labels |-> r[p].live.items[i].labels]]
      ELSE [i \in DOMAIN r[p].live.columnMappings |->
              [key    |-> get_column_key(
                            r[p].live.columnMappings[i].leftColumnName,
                            r[p].live.columnMappings[i].rightColumnName),
               labels |-> r[p].live.columnMappings[i].labels]]

\* C16: a row a run persisted for a policy whose PUT then failed stays in the
\* ledger, and a later PUT that succeeds for the policy leaves the live item
\* or mapping of that key with a label of that key whose value is the id the
\* row recorded.
C16_RerunHeals ==
    [][ /\ \A d \in diverged' :
              \E r \in DOMAIN ledger' :
                 /\ ledger'[r].Policy_ID = d.policy_id
                 /\ ledger'[r].Rule_ID = d.value
        /\ (pc = "put" /\ policies_updated' = policies_updated + 1) =>
              \A d \in diverged :
                 d.policy_id = pending[1].policy_id =>
                    LET rows == live_keyed(remote', policy_of(d.policy_id))
                    IN  \A i \in DOMAIN rows :
                           rows[i].key = d.key =>
                              \E j \in DOMAIN rows[i].labels :
                                 rows[i].labels[j] =
                                    [key |-> d.key, value |-> d.value]
      ]_vars

\* The counts the summary of main() prints at the end of a run (the count of
\* the candidates, which the comparison loop of the model consumes, left out)
summary_report ==
    [policies_in_csv  |-> Cardinality(policy_ids),
     new_found        |-> Len(new_rules_added) + Len(new_mappings_added),
     policies_updated |-> policies_updated,
     labels_added     |-> total_labels_added,
     labels_skipped   |-> total_labels_skipped]

\* The PUTs of the run that failed
failed_puts == {i \in DOMAIN puts : ~puts[i].ok}

\* The labels added by the PUTs of ps that succeeded
RECURSIVE labels_written(_)
labels_written(ps) ==
    IF ps = << >> THEN 0
    ELSE (IF Head(ps).ok THEN Head(ps).labels ELSE 0) + labels_written(Tail(ps))

\* C24: at the end of a run the summary counts as added the labels of the
\* PUTs that succeeded and no others, and when a PUT failed it reports a
\* count of write failures equal to the number of PUTs that failed.
C24_RunCounters ==
    (pc = "label" /\ to_label = << >>) =>
        /\ summary_report.labels_added = labels_written(puts)
        /\ failed_puts # {} =>
              /\ "write_failures" \in DOMAIN summary_report
              /\ summary_report["write_failures"] = Cardinality(failed_puts)

\* The ledger on disk holds a row of the policy and key of label l with the
\* id that is its value
backed(l) ==
    \E r \in DOMAIN ledger :
        /\ ledger[r].Policy_ID = l.policy_id
        /\ ledger[r].Rule_ID = l.value
        /\ l.key = IF is_quality
                     THEN ledger[r].Column_Name
                     ELSE get_column_key(ledger[r].Left_Column_Name,
                                         ledger[r].Right_Column_Name)

\* C30: the label loop starts only when every candidate has been compared,
\* and the step that starts it leaves on disk the rows that were there, in
\* order, followed by the new rows; a PUT is issued in the label loop only,
\* which does not touch the ledger, and every label a PUT creates has the id
\* of a ledger row of its policy and key that is on disk.
C30_LedgerBeforeWriteBack ==
    [][ /\ (pc \notin {"label", "put"} /\ pc' = "label") =>
              /\ policies_to_compare = {}
              /\ Len(ledger') = Len(ledger) + Len(new_rules_added)
                                            + Len(new_mappings_added)
              /\ SubSeq(ledger', 1, Len(ledger)) = ledger
              /\ puts = << >> /\ put_log = {}
        /\ (puts' # puts /\ puts' # << >>) =>
              /\ pc = "put"
              /\ ledger' = ledger
              /\ \A l \in put_log' : backed(l)
        /\ pc \in {"label", "put"} => ledger' = ledger
      ]_vars

\* A run has recorded a new check or mapping and then written its label.
C30_Witness ==
    /\ pc = "label"
    /\ new_rules_added # << >> \/ new_mappings_added # << >>
    /\ \E i \in DOMAIN puts : puts[i].ok
    /\ \E l \in put_log :
          \E j \in DOMAIN new_rules_added :
             /\ new_rules_added[j].Policy_ID = l.policy_id
             /\ new_rules_added[j].Column_Name = l.key
             /\ str(new_rules_added[j].Rule_ID) = l.value

\* labels_added as the label loop computes it for the policy it takes next
next_labels_added ==
    LET pid == Head(to_label)
    IN  IF is_quality
          THEN build_update_payload(live_response(policy_of(pid)),
                                    policy_labels[pid]).labels_added
          ELSE Recon_build_update_payload(live_response(policy_of(pid)),
                                          policy_labels[pid]).labels_added

\* The policies the ledger on disk holds a usable row for
usable_policies ==
    IF is_quality THEN DOMAIN LedgerMap ELSE DOMAIN ReconLedgerMap

\* C18: a turn of the label loop sends a PUT for its policy exactly when the
\* live fetch succeeded and build_update_payload added a label, and the PUT
\* carries those labels; the policy then holds a usable ledger row; nothing
\* else sends a PUT, and only the answer of a PUT counts a policy as updated.
C18_WriteBackGating ==
    [][ /\ \A fetch_ok \in BOOLEAN :
              ( \/ is_quality /\ Label(fetch_ok)
                \/ ~is_quality /\ ReconLabel(fetch_ok) )
              => /\ (pc' = "put") <=>
                        (fetch_ok /\ next_labels_added # << >>)
                 /\ pc' = "put" =>
                        /\ pending'[1].policy_id = Head(to_label)
                        /\ pending'[1].labels_added = next_labels_added
                        /\ Head(to_label) \in usable_policies
        /\ (pc # "put" /\ pc' = "put") => pc = "label"
        /\ (puts' # puts /\ puts' # << >>) =>
              /\ pc = "put"
              /\ Len(puts') = Len(puts) + 1
              /\ puts'[Len(puts')].policy_id = pending[1].policy_id
              /\ puts'[Len(puts')].labels > 0
        /\ pc # "put" => /\ put_log' \subseteq put_log
                         /\ policies_updated' \in {policies_updated, 0}
      ]_vars

\* The label loop is over: it wrote to one policy and left alone another whose
\* checks all carried their label.
C18_Witness ==
    /\ is_quality
    /\ pc = "label" /\ to_label = << >> /\ ~run_failed
    /\ Len(policy_labels_order) = 2
    /\ policies_updated = 1
    /\ total_labels_skipped > 0

\* C13: a turn of the comparison loop in which the version 1 fetch or the
\* latest fetch fails computes no diff and records nothing for the policy,
\* raises nothing, and leaves the other candidates to be compared.
C13_FailedSnapshotSkips ==
    [][ \A policy_info \in policies_to_compare, v1_ok, latest_ok \in BOOLEAN :
          ( /\ ~(v1_ok /\ latest_ok)
            /\ \/ is_quality /\ Compare(policy_info, v1_ok, latest_ok)
               \/ ~is_quality /\ ReconCompare(policy_info, v1_ok, latest_ok) )
          => /\ new_rules_added' = new_rules_added
             /\ new_mappings_added' = new_mappings_added
             /\ policy_labels' = policy_labels
             /\ existing_rule_ids' = existing_rule_ids
             /\ existing_mapping_keys' = existing_mapping_keys
             /\ ledger' = ledger
             /\ pc' = "compare"
             /\ policies_to_compare' = policies_to_compare \ {policy_info}
      ]_vars

\* The comparison loop is over: a policy that holds a check the ledger lacks
\* was a candidate and got no row, another candidate got its row.
C13_Witness ==
    /\ is_quality
    /\ pc = "label" /\ to_label = policy_labels_order /\ run_failed
    /\ \E p, q \in Policies :
          /\ p # q
          /\ remote[p].version > 1 /\ str(p) \in policy_ids
          /\ \E i \in DOMAIN remote[p].live.items :
                /\ remote[p].live.items[i].measurementType = "CUSTOM"
                /\ \A r \in DOMAIN ledger :
                      ledger[r].Policy_ID = str(p) =>
                         ledger[r].Column_Name #
                            get_column_name(remote[p].live.items[i])
          /\ \E j \in DOMAIN new_rules_added :
                new_rules_added[j].Policy_ID = str(q)

(***************************************************************************)
(* The identity key as a function: two checks of equal content are drawn,  *)
(* and Step 3 keys them in separate calls, in either order.                *)
(***************************************************************************)
Labelings == { << >>, <<[key |-> "owner", value |-> "dq"]>> }

Checks ==
    { Check(id, mt, col, expr, val, labels) :
        id \in 1..2, mt \in MeasurementTypes, col \in ColumnNames,
        expr \in Expressions, val \in UdfValues, labels \in Labelings }

NoRemote ==
    /\ remote = << >> /\ nextId = 1 /\ edits = 0
    /\ ledger = << >> /\ harvested = FALSE
    /\ IdleRun

InitKey ==
    /\ NoDiff
    /\ NoRemote
    /\ NoRequests
    /\ OVERRIDE_LABELS = FALSE
    /\ chk_a \in Checks
    /\ chk_b \in {c \in Checks : content(c) = content(chk_a)}
    /\ key_a = "?" /\ key_b = "?"
    /\ definition = << >> /\ ledgerMap = EmptyDict
    /\ pass1 = << >> /\ pass2 = << >>

KeyA ==
    /\ key_a = "?"
    /\ key_a' = get_column_name(chk_a)
    /\ UNCHANGED <<remoteVars, fileVars, runVars, obsVars, chk_a, chk_b,
                   key_b, recVars, reqVars, diffVars>>

KeyB ==
    /\ key_b = "?"
    /\ key_b' = get_column_name(chk_b)
    /\ UNCHANGED <<remoteVars, fileVars, runVars, obsVars, chk_a, chk_b,
                   key_a, recVars, reqVars, diffVars>>

NextKey == KeyA \/ KeyB

SpecKey == InitKey /\ [][NextKey]_vars

\* C9: two checks of the same content get the same key, whatever their ids
\* and labels and whichever is keyed first.
C9_KeyDeterminism ==
    (key_a # "?" /\ key_b # "?" /\ content(chk_a) = content(chk_b))
        => key_a = key_b

C9_Witness ==
    /\ key_a # "?" /\ key_a = key_b
    /\ chk_a.id # chk_b.id
    /\ chk_a.labels # chk_b.labels
    /\ chk_a.measurementType = "CUSTOM"
    /\ chk_a.ruleExpression = "amount > 0"

\* The key the documented rules give, digest8 being md5_hexdigest8
claimed_key(c) ==
    CASE c.measurementType \in {"CUSTOM", "SQL_METRIC"} ->
            c.measurementType \o "-" \o md5_hexdigest8(c.ruleExpression)
      [] c.measurementType = "UDF_PREDICATE" ->
            "UDF_PREDICATE-" \o (IF c.value = << >> THEN "unknown"
                                                   ELSE c.value[1])
      [] c.measurementType = "SIZE_CHECK" -> "SIZE_CHECK"
      [] OTHER ->
            CASE c.measurementType # "" /\ c.columnName # "" ->
                    c.measurementType \o "-" \o c.columnName
              [] c.measurementType = "" /\ c.columnName # "" -> c.columnName
              [] c.measurementType # "" /\ c.columnName = "" ->
                    c.measurementType
              [] OTHER -> "UNKNOWN"

\* C10 as claimed: every check gets the key the rules give.
C10_KeyRulesAsClaimed ==
    key_a # "?" => key_a = claimed_key(chk_a)

\* C10, amended: the rules give the key of every check, except that a CUSTOM
\* or SQL_METRIC check without expression gets "{KIND}-empty".
C10_KeyRules ==
    key_a # "?" =>
        key_a = IF /\ chk_a.measurementType \in {"CUSTOM", "SQL_METRIC"}
                   /\ chk_a.ruleExpression = ""
                  THEN chk_a.measurementType \o "-empty"
                  ELSE claimed_key(chk_a)

C10_Witness ==
    /\ key_a = "SQL_METRIC-empty"
    /\ chk_a.columnName = "amount"
    /\ chk_a.value # << >>

(***************************************************************************)
(* Reconciling twice.  A policy definition of either category and the      *)
(* label_mappings of its policy are drawn; build_update_payload is applied,*)
(* the payload replaces the items or mappings of the definition as the PUT *)
(* does, and build_update_payload is applied to what is then fetched.      *)
(***************************************************************************)
\* The label lists an item or mapping of key k may carry when fetched
LabelingsOf(k) ==
    { << >>,
      <<[key |-> "owner", value |-> "dq"]>>,
      <<[key |-> k, value |-> "7"]>>,
      <<[key |-> "owner", value |-> "dq"], [key |-> k, value |-> "7"]>>,
      <<[key |-> "", value |-> "x"]>> }

ReconcileContents ==
    { Check(0, "MISSING_VALUES", "amount", "", << >>, << >>),
      Check(0, "CUSTOM", "", "amount > 0", << >>, << >>),
      Check(0, "UDF_PREDICATE", "", "", << >>, << >>),
      Check(0, "SIZE_CHECK", "", "", << >>, << >>) }

ReconcileChecks ==
    { [c EXCEPT !.labels = l] :
        c \in ReconcileContents, l \in UNION {LabelingsOf(get_column_name(d)) :
                                                d \in ReconcileContents} }

ReconcileMappingContents ==
    { Mapping(0, "id", "id", << >>),
      Mapping(0, "a", "b_c", << >>),
      Mapping(0, "a_b", "c", << >>) }

ReconcileMappings ==
    { [m EXCEPT !.labels = l] :
        m \in ReconcileMappingContents,
        l \in UNION {LabelingsOf(get_column_key(d.leftColumnName,
                                                 d.rightColumnName)) :
                        d \in ReconcileMappingContents} }

\* The lists of at most MaxItems rows of a set, each row with its position
\* as id
Listings(rows) ==
    UNION { { [i \in 1..n |-> [f[i] EXCEPT !.id = i]] : f \in [1..n -> rows] } :
            n \in 0..MaxItems }

\* label_mappings: some of the keys, each with a recorded id
LabelMappings(keys) ==
    UNION { [ks -> {"1"}] : ks \in SUBSET keys }

\* The settings of a rule the remote owns
RuleSettings ==
    [scheduleType : {"RECENT", "FULL"}, analyticsPipelineId : {None, "7"}]

QualityDefinitions ==
    { [rule    |-> [id |-> 1, name |-> "policy-1", type |-> "DATA_QUALITY",
                    version |-> 1,
                    scheduleType |-> r.scheduleType,
                    analyticsPipelineId |-> r.analyticsPipelineId],
       details |-> [items |-> items, columnMappings |-> << >>]] :
      items \in Listings(ReconcileChecks), r \in RuleSettings }

ReconDefinitions ==
    { [rule    |-> [id |-> 1, name |-> "policy-1", type |-> "EQUALITY",
                    version |-> 1,
                    scheduleType |-> r.scheduleType,
                    analyticsPipelineId |-> r.analyticsPipelineId],
       details |-> [items |-> <<[measurementType |-> "EQUALITY"]>>,
                    columnMappings |-> mappings]] :
      mappings \in Listings(ReconcileMappings), r \in RuleSettings }

InitReconcile ==
    /\ NoDiff
    /\ NoRemote
    /\ NoRequests
    /\ chk_a = << >> /\ chk_b = << >> /\ key_a = "?" /\ key_b = "?"
    /\ pass1 = << >> /\ pass2 = << >>
    /\ \/ /\ definition \in QualityDefinitions
          /\ OVERRIDE_LABELS \in BOOLEAN
          /\ ledgerMap \in LabelMappings({get_column_name(c) :
                                            c \in ReconcileContents} \
                                         {"SIZE_CHECK"})
       \/ /\ definition \in ReconDefinitions
          /\ OVERRIDE_LABELS \in BOOLEAN
          /\ ledgerMap \in LabelMappings(
                 {get_column_key(m.leftColumnName, m.rightColumnName) :
                    m \in ReconcileMappingContents})

\* What GET returns once PUT has stored the payload
stored_quality(policy_data, payload) ==
    [policy_data EXCEPT !.details.items = payload.items,
                        !.rule.scheduleType = payload.rule.scheduleType,
                        !.rule.analyticsPipelineId =
                            payload.rule.analyticsPipelineId]

stored_recon(policy_data, payload) ==
    [policy_data EXCEPT !.details.columnMappings = payload.mappings,
                        !.rule.scheduleType = payload.rule.scheduleType,
                        !.rule.analyticsPipelineId =
                            payload.rule.analyticsPipelineId]

ReconcileQuality1 ==
    /\ definition # << >> /\ definition.rule.type = "DATA_QUALITY"
    /\ pass1 = << >>
    /\ pass1' = build_update_payload(definition, ledgerMap)
    /\ UNCHANGED <<remoteVars, fileVars, runVars, obsVars, keyVars, diffVars, reqVars,
                   definition, ledgerMap, pass2>>

ReconcileQuality2 ==
    /\ definition # << >> /\ definition.rule.type = "DATA_QUALITY"
    /\ pass1 # << >> /\ pass2 = << >>
    /\ pass2' = build_update_payload(
                    stored_quality(definition, pass1.payload), ledgerMap)
    /\ UNCHANGED <<remoteVars, fileVars, runVars, obsVars, keyVars, diffVars, reqVars,
                   definition, ledgerMap, pass1>>

ReconcileRecon1 ==
    /\ definition # << >> /\ definition.rule.type = "EQUALITY"
    /\ pass1 = << >>
    /\ pass1' = Recon_build_update_payload(definition, ledgerMap)
    /\ UNCHANGED <<remoteVars, fileVars, runVars, obsVars, keyVars, diffVars, reqVars,
                   definition, ledgerMap, pass2>>

ReconcileRecon2 ==
    /\ definition # << >> /\ definition.rule.type = "EQUALITY"
    /\ pass1 # << >> /\ pass2 = << >>
    /\ pass2' = Recon_build_update_payload(
                    stored_recon(definition, pass1.payload), ledgerMap)
    /\ UNCHANGED <<remoteVars, fileVars, runVars, obsVars, keyVars, diffVars, reqVars,
                   definition, ledgerMap, pass1>>

NextReconcile ==
    \/ ReconcileQuality1
    \/ ReconcileQuality2
    \/ ReconcileRecon1
    \/ ReconcileRecon2

SpecReconcile == InitReconcile /\ [][NextReconcile]_vars

\* The items or mappings a pass returns, whichever the category
rows_after(pass) ==
    IF definition.rule.type = "DATA_QUALITY" THEN pass.payload.items
                                             ELSE pass.payload.mappings

\* The keys of the items or mappings of the definition, in order
keys_of_definition ==
    IF definition.rule.type = "DATA_QUALITY"
      THEN [i \in DOMAIN definition.details.items |->
              get_column_name(definition.details.items[i])]
      ELSE [i \in DOMAIN definition.details.columnMappings |->
              get_column_key(definition.details.columnMappings[i].leftColumnName,
                             definition.details.columnMappings[i].rightColumnName)]

in_ledgerMap(k) == k \in DOMAIN ledgerMap

\* C5: in normal mode the second pass over the result of the first adds no
\* label, reports every item or mapping whose key the ledger holds as skipped,
\* and leaves the labels of each item or mapping as the first pass made them.
C5_ReconcileIdempotent ==
    (pass2 # << >> /\ ~OVERRIDE_LABELS) =>
        /\ pass2.labels_added = << >>
        /\ pass2.labels_skipped = SelectSeq(keys_of_definition, in_ledgerMap)
        /\ \A i \in DOMAIN rows_after(pass1) :
              Range(rows_after(pass2)[i].labels) =
                  Range(rows_after(pass1)[i].labels)

C5_Witness ==
    /\ pass2 # << >> /\ ~OVERRIDE_LABELS
    /\ definition.rule.type = "DATA_QUALITY"
    /\ Len(pass1.labels_added) = 1
    /\ Len(pass1.labels_skipped) = 1
    /\ Len(pass2.labels_skipped) = 2

\* C11: in override mode every item of the payload ends with the one label
\* label_mappings gives for its key, or with no label; no label whose key
\* label_mappings lacks is left, whatever the item carried.
C11_OverrideDestructive ==
    (pass1 # << >> /\ OVERRIDE_LABELS /\ definition.rule.type = "DATA_QUALITY") =>
        \A i \in DOMAIN pass1.payload.items :
            LET k == get_column_name(definition.details.items[i])
                labels == pass1.payload.items[i].labels
            IN  /\ labels = IF k \in DOMAIN ledgerMap
                               THEN <<[key |-> k, value |-> ledgerMap[k]]>>
                               ELSE << >>
                /\ \A j \in DOMAIN labels : labels[j].key \in DOMAIN ledgerMap

\* Override mode has removed a foreign label from an item the ledger does not
\* know and replaced a stale label of an item it knows.
C11_Witness ==
    /\ pass1 # << >> /\ OVERRIDE_LABELS
    /\ definition.rule.type = "DATA_QUALITY"
    /\ Len(definition.details.items) = 2
    /\ definition.details.items[1].labels = <<[key |-> "owner", value |-> "dq"]>>
    /\ get_column_name(definition.details.items[1]) \notin DOMAIN ledgerMap
    /\ pass1.payload.items[1].labels = << >>
    /\ definition.details.items[2].labels =
          <<[key |-> get_column_name(definition.details.items[2]), value |-> "7"]>>
    /\ pass1.payload.items[2].labels =
          <<[key |-> get_column_name(definition.details.items[2]), value |-> "1"]>>

\* How many times k occurs in the list keys
occurrences(keys, k) == Cardinality({j \in DOMAIN keys : keys[j] = k})

\* The column mappings of the definition whose key is k and that carry, or
\* do not carry, a label of key k
mappings_keyed(k, labelled) ==
    {i \in DOMAIN definition.details.columnMappings :
        /\ keys_of_definition[i] = k
        /\ (k \in label_keys(definition.details.columnMappings[i].labels))
              = labelled}

\* C23: reconciling the column mappings, a mapping whose key label_mappings
\* holds and that carries a label of that key is reported skipped and keeps
\* its labels; one that does not carry it gets the one label {key, value of
\* label_mappings} appended and is reported added, whatever its id; a mapping
\* whose key label_mappings lacks keeps its labels and is not reported.
C23_MappingAddSkip ==
    (pass1 # << >> /\ definition.rule.type = "EQUALITY") =>
        /\ \A i \in DOMAIN definition.details.columnMappings :
              LET m == definition.details.columnMappings[i]
                  k == keys_of_definition[i]
                  out == pass1.payload.mappings[i].labels
              IN  IF k \in DOMAIN ledgerMap /\ k \notin label_keys(m.labels)
                    THEN out = Append(m.labels,
                                      [key |-> k, value |-> ledgerMap[k]])
                    ELSE out = m.labels
        /\ \A k \in Range(keys_of_definition) \cup DOMAIN ledgerMap :
              /\ occurrences(pass1.labels_added, k) =
                    IF k \in DOMAIN ledgerMap
                      THEN Cardinality(mappings_keyed(k, FALSE)) ELSE 0
              /\ occurrences(pass1.labels_skipped, k) =
                    IF k \in DOMAIN ledgerMap
                      THEN Cardinality(mappings_keyed(k, TRUE)) ELSE 0

\* The mapping (id, id) carries the label id_id and is skipped; the second
\* mapping, of id 2, gets the label of its key with the recorded id 1.
C23_Witness ==
    /\ pass1 # << >> /\ definition.rule.type = "EQUALITY"
    /\ Len(definition.details.columnMappings) = 2
    /\ definition.details.columnMappings[1].leftColumnName = "id"
    /\ definition.details.columnMappings[1].labels =
          <<[key |-> "id_id", value |-> "7"]>>
    /\ pass1.labels_skipped = <<"id_id">>
    /\ pass1.payload.mappings[1].labels = <<[key |-> "id_id", value |-> "7"]>>
    /\ definition.details.columnMappings[2].id = 2
    /\ definition.details.columnMappings[2].labels =
          <<[key |-> "owner", value |-> "dq"]>>
    /\ pass1.labels_added = <<"a_b_c">>
    /\ pass1.payload.mappings[2].labels =
          <<[key |-> "owner", value |-> "dq"],
            [key |-> "a_b_c", value |-> "1"]>>

\* C25: with the override flag on, every column mapping of the payload ends
\* with the one label label_mappings gives for its key, or with no label, as
\* the items of a quality policy do.
C25_ReconOverride ==
    (pass1 # << >> /\ OVERRIDE_LABELS /\ definition.rule.type = "EQUALITY") =>
        \A i \in DOMAIN pass1.payload.mappings :
            LET k == keys_of_definition[i]
            IN  pass1.payload.mappings[i].labels =
                    IF k \in DOMAIN ledgerMap
                      THEN <<[key |-> k, value |-> ledgerMap[k]]>>
                      ELSE << >>

\* The items or mappings of the definition, whichever the category
rows_before ==
    IF definition.rule.type = "DATA_QUALITY"
      THEN definition.details.items
      ELSE definition.details.columnMappings

\* No two labels of the list have the same key
distinct_keys(labels) ==
    \A i, j \in DOMAIN labels : i # j => labels[i].key # labels[j].key

\* C29: when the labels of every item or mapping of the definition have
\* distinct keys, so have the labels of every item or mapping of the payload,
\* in either mode, and in normal mode every label of the definition is in the
\* payload with its key and value.
C29_LabelKeysUnique ==
    (pass1 # << >> /\ \A i \in DOMAIN rows_before :
                          distinct_keys(rows_before[i].labels)) =>
        \A i \in DOMAIN rows_before :
            LET before == rows_before[i].labels
                after  == rows_after(pass1)[i].labels
            IN  /\ distinct_keys(after)
                /\ ~OVERRIDE_LABELS => Range(before) \subseteq Range(after)

\* Normal mode has added the label of the key to an item that carries a label
\* of another tool and left alone an item that carries both labels.
C29_Witness ==
    /\ pass1 # << >> /\ ~OVERRIDE_LABELS
    /\ definition.rule.type = "DATA_QUALITY"
    /\ Len(rows_before) = 2
    /\ rows_before[1].labels = <<[key |-> "owner", value |-> "dq"]>>
    /\ Len(rows_after(pass1)[1].labels) = 2
    /\ Len(rows_before[2].labels) = 2
    /\ rows_after(pass1)[2].labels = rows_before[2].labels
    /\ Len(pass1.labels_added) = 1
    /\ Len(pass1.labels_skipped) = 1

\* The fields of a record r other than "labels" that the record q carries too
\* have the same value in both
same_but_labels(r, q) ==
    \A f \in (DOMAIN r \cap DOMAIN q) \ {"labels"} : q[f] = r[f]

\* C12: every field the payload carries, other than the labels of the items
\* or mappings, has the value the fetched definition has for it.
C12_PassThrough ==
    pass1 # << >> =>
        /\ same_but_labels(definition.rule, pass1.payload.rule)
        /\ \A i \in DOMAIN pass1.payload.items :
              same_but_labels(definition.details.items[i],
                              pass1.payload.items[i])
        /\ definition.rule.type = "EQUALITY" =>
              \A i \in DOMAIN pass1.payload.mappings :
                 same_but_labels(definition.details.columnMappings[i],
                                 pass1.payload.mappings[i])

(***************************************************************************)
(* The requests for policy details, one by one: Step 2, then one Step 3    *)
(* run of the quality scripts.  What the responses hold does not matter    *)
(* here: which policies the listing shows with a version above 1 and which *)
(* policies get a PUT is open.                                             *)
(***************************************************************************)
\* A request: the function that sends it, the policy, and the version asked
\* for (0: none)
\* The policy ids Step 2 reads when the requests are followed
RequestPolicies == 1..NumRequestPolicies

Request(call, policy, version) ==
    [call |-> call, policy |-> policy, version |-> version]

InitRequests ==
    /\ NoDiff
    /\ NoRemote
    /\ OVERRIDE_LABELS = FALSE
    /\ chk_a = << >> /\ chk_b = << >> /\ key_a = "?" /\ key_b = "?"
    /\ definition = << >> /\ ledgerMap = EmptyDict
    /\ pass1 = << >> /\ pass2 = << >>
    /\ req_pc = "step2"
    /\ tasks = {} /\ outstanding = {} /\ loop_todo = {}

\* Step_2_Fetch_Policy_Details.process_policies: one coroutine per policy id,
\* all of them handed to asyncio.gather
CreateTasks ==
    /\ req_pc = "step2"
    /\ tasks' = {Request("fetch_policy_details", p, 0) : p \in RequestPolicies}
    /\ req_pc' = "gathered"
    /\ UNCHANGED <<remoteVars, fileVars, runVars, obsVars, keyVars, diffVars, recVars,
                   outstanding, loop_todo>>

\* The event loop runs a coroutine of the gather up to its session.get
TaskSends(r) ==
    /\ r \in tasks
    /\ tasks' = tasks \ {r}
    /\ outstanding' = outstanding \cup {r}
    /\ UNCHANGED <<remoteVars, fileVars, runVars, obsVars, keyVars, diffVars, recVars,
                   req_pc, loop_todo>>

\* The response to a request of a gather arrives
ResponseArrives(r) ==
    /\ req_pc \in {"gathered", "snapshots"}
    /\ r \in outstanding
    /\ outstanding' = outstanding \ {r}
    /\ UNCHANGED <<remoteVars, fileVars, runVars, obsVars, keyVars, diffVars, recVars,
                   req_pc, tasks, loop_todo>>

\* The gather of Step 2 returns; Step 3 starts and lists the policies
GatherReturns(candidates) ==
    /\ req_pc = "gathered"
    /\ tasks = {} /\ outstanding = {}
    /\ loop_todo' = candidates
    /\ req_pc' = "compare"
    /\ UNCHANGED <<remoteVars, fileVars, runVars, obsVars, keyVars, diffVars, recVars,
                   tasks, outstanding>>

\* The versions the listing can show for a candidate
ListedVersions == 2..(MaxEdits + 1)

\* Step_3_Sync_Policy_Labels.main: the gather of the two snapshot fetches of
\* the next candidate, version 1 and the version the listing gave for it
GatherSnapshots(p, latest_version) ==
    /\ req_pc = "compare"
    /\ p \in loop_todo
    /\ loop_todo' = loop_todo \ {p}
    /\ tasks' = {Request("fetch_policy_version", p, 1),
                 Request("fetch_policy_version", p, latest_version)}
    /\ req_pc' = "snapshots"
    /\ UNCHANGED <<remoteVars, fileVars, runVars, obsVars, keyVars, diffVars, recVars,
                   outstanding>>

SnapshotsReturn ==
    /\ req_pc = "snapshots"
    /\ tasks = {} /\ outstanding = {}
    /\ req_pc' = "compare"
    /\ UNCHANGED <<remoteVars, fileVars, runVars, obsVars, keyVars, diffVars, recVars,
                   tasks, outstanding, loop_todo>>

\* The comparison loop is over; the label loop takes the policies of
\* policy_labels
StartLabelling(labelled) ==
    /\ req_pc = "compare"
    /\ loop_todo = {}
    /\ loop_todo' = labelled
    /\ req_pc' = "label"
    /\ UNCHANGED <<remoteVars, fileVars, runVars, obsVars, keyVars, diffVars, recVars,
                   tasks, outstanding>>

\* await fetch_policy(session, policy_id)
FetchPolicy(p) ==
    /\ req_pc = "label"
    /\ p \in loop_todo
    /\ loop_todo' = loop_todo \ {p}
    /\ outstanding' = {Request("fetch_policy", p, 0)}
    /\ req_pc' = "fetching"
    /\ UNCHANGED <<remoteVars, fileVars, runVars, obsVars, keyVars, diffVars, recVars,
                   tasks>>

\* fetch_policy returns; await update_policy(...) when labels were added
FetchReturns(r, put) ==
    /\ req_pc = "fetching"
    /\ r \in outstanding
    /\ \/ /\ put
          /\ outstanding' = {Request("update_policy", r.policy, 0)}
          /\ req_pc' = "putting"
       \/ /\ ~put
          /\ outstanding' = {}
          /\ req_pc' = "label"
    /\ UNCHANGED <<remoteVars, fileVars, runVars, obsVars, keyVars, diffVars, recVars,
                   tasks, loop_todo>>

UpdateReturns ==
    /\ req_pc = "putting"
    /\ outstanding' = {}
    /\ req_pc' = "label"
    /\ UNCHANGED <<remoteVars, fileVars, runVars, obsVars, keyVars, diffVars, recVars,
                   tasks, loop_todo>>

NextRequests ==
    \/ CreateTasks
    \/ \E r \in tasks : TaskSends(r)
    \/ \E r \in outstanding : ResponseArrives(r)
    \/ \E candidates \in SUBSET RequestPolicies : GatherReturns(candidates)
    \/ \E p \in loop_todo, latest_version \in ListedVersions :
          GatherSnapshots(p, latest_version)
    \/ SnapshotsReturn
    \/ \E labelled \in SUBSET RequestPolicies : StartLabelling(labelled)
    \/ \E p \in loop_todo : FetchPolicy(p)
    \/ \E r \in outstanding, put \in BOOLEAN : FetchReturns(r, put)
    \/ UpdateReturns

SpecRequests == InitRequests /\ [][NextRequests]_vars

\* C17: at most two requests for policy details are outstanding, and two that
\* are outstanding are the version 1 and the latest fetch of one policy.
C17_BoundedParallelism ==
    /\ Cardinality(outstanding) <= 2
    /\ \A r1, r2 \in outstanding :
          r1 # r2 => /\ r1.policy = r2.policy
                     /\ r1.call = "fetch_policy_version"
                     /\ r2.call = "fetch_policy_version"


(***************************************************************************)
(* The version diff as a function: a version 1 snapshot and a latest       *)
(* snapshot of one quality policy are drawn, and main() compares them.     *)
(***************************************************************************)
MaxDiffItems == 2

\* Contents of the items of the two snapshots
DiffContents ==
    { Check(0, mt, "", expr, << >>, << >>) :
        mt \in {"CUSTOM", "SQL_METRIC"},
        expr \in {"", "amount > 0", "amount > 29732"} }
    \cup
    { Check(0, mt, col, "", << >>, << >>) :
        mt \in {"MISSING_VALUES", "RANGE_MATCH"},
        col \in {"", "amount", "currency"} }
    \cup
    { Check(0, "CUSTOM", "currency", "amount > 0", << >>, << >>),
      Check(0, "MISSING_VALUES", "amount", "amount > 0", << >>, << >>),
      Check(0, "UDF_PREDICATE", "amount", "", <<"7">>, << >>),
      Check(0, "UDF_PREDICATE", "amount", "", <<"">>, << >>),
      Check(0, "SIZE_CHECK", "", "", << >>, << >>) }

\* The item lists of a snapshot, ids as the remote numbers them from n on
DiffItems(n) ==
    { renumber(items, n, TRUE) :
        items \in UNION {[1..k -> DiffContents] : k \in 0..MaxDiffItems} }

DiffSnapshot(items) ==
    [rule    |-> [id |-> 1, name |-> "orders", type |-> "DATA_QUALITY"],
     details |-> [items |-> items]]

InitDiff ==
    /\ NoRemote
    /\ NoRequests
    /\ OVERRIDE_LABELS = FALSE
    /\ chk_a = << >> /\ chk_b = << >> /\ key_a = "?" /\ key_b = "?"
    /\ definition = << >> /\ ledgerMap = EmptyDict
    /\ pass1 = << >> /\ pass2 = << >>
    /\ diff_v1 \in {DiffSnapshot(items) : items \in DiffItems(1)}
    /\ diff_latest \in {DiffSnapshot(items) : items \in DiffItems(5)}
    /\ diff_new = << >>
    /\ diff_pc = "fetched"

\* Step_3_Sync_Policy_Labels.main: the two snapshots of a candidate are
\* extracted and compared
DiffSnapshots ==
    /\ diff_pc = "fetched"
    /\ LET v1_info     == extract_items_info(diff_v1)
           latest_info == extract_items_info(diff_latest)
       IN  diff_new' = find_new_rules(v1_info, latest_info, "1",
                                      diff_latest.rule.name)
    /\ diff_pc' = "compared"
    /\ UNCHANGED <<remoteVars, fileVars, runVars, obsVars, keyVars, recVars,
                   reqVars, diff_v1, diff_latest>>

NextDiff == DiffSnapshots

SpecDiff == InitDiff /\ [][NextDiff]_vars

\* The items of a snapshot
items_of(data) == Range(data.details.items)

\* find_new_rules reported the item
reported(item) ==
    \E j \in DOMAIN diff_new : diff_new[j].Rule_ID = item.id

\* The expressions the baseline items of a measurement type have
baseline_expressions(mt) ==
    {b.ruleExpression : b \in {c \in items_of(diff_v1) :
                                    c.measurementType = mt}} \ {""}

column_based(item) ==
    item.measurementType \notin
        {"CUSTOM", "SQL_METRIC", "UDF_PREDICATE", "SIZE_CHECK"}

\* The column names the column-based baseline items have
baseline_columns ==
    {b.columnName : b \in {c \in items_of(diff_v1) : column_based(c)}} \ {""}

\* C19: a CUSTOM or SQL_METRIC item of the latest snapshot is reported
\* exactly when its expression is not among the expressions of the baseline
\* items of its own measurement type.
C19_ExpressionDiff ==
    diff_pc = "compared" =>
        \A item \in items_of(diff_latest) :
            item.measurementType \in {"CUSTOM", "SQL_METRIC"} =>
                ( reported(item) <=>
                    item.ruleExpression \notin
                        baseline_expressions(item.measurementType) )

\* The columns of the column-based items of a snapshot
columns_of(data) ==
    {c.columnName : c \in {d \in items_of(data) : column_based(d)}}

\* C20: a column-based item of the latest snapshot is reported exactly when
\* its column name is not among the column names of the column-based baseline
\* items, whatever the measurement types; with baseline columns {amount} and
\* latest columns {amount, currency} exactly the one item on currency is
\* reported.
C20_ColumnDiff ==
    diff_pc = "compared" =>
        /\ \A item \in items_of(diff_latest) :
              column_based(item) =>
                  (reported(item) <=> item.columnName \notin baseline_columns)
        /\ ( /\ columns_of(diff_v1) = {"amount"}
             /\ columns_of(diff_latest) = {"amount", "currency"}
             /\ \A d \in items_of(diff_latest) : column_based(d) )
           => /\ Len(diff_new) = 1
              /\ diff_new[1].Column_Name \in
                    {"MISSING_VALUES-currency", "RANGE_MATCH-currency"}

\* C21: when the baseline snapshot has no items, every item of the latest
\* snapshot is reported new, whatever its measurement type and fields.
C21_EmptyBaseline ==
    (diff_pc = "compared" /\ diff_v1.details.items = << >>) =>
        \A item \in items_of(diff_latest) : reported(item)

\* C27: every item of the latest snapshot whose identity key is the key of no
\* baseline item is reported new.
C27_DiffAgreesWithKey ==
    diff_pc = "compared" =>
        \A item \in items_of(diff_latest) :
            (\A b \in items_of(diff_v1) :
                get_column_name(b) # get_column_name(item))
            => reported(item)

(***************************************************************************)
(* The version diff of the column mappings as a function: a version 1 and  *)
(* a latest snapshot of one reconciliation policy are drawn and compared.  *)
(***************************************************************************)
DiffMappingContents ==
    { Mapping(0, left, right, << >>) :
        left \in {"", "a", "a_b", "id"}, right \in {"", "b_c", "c", "id"} }

DiffMappingLists(n) ==
    { renumber(mappings, n, TRUE) :
        mappings \in UNION {[1..k -> DiffMappingContents] :
                               k \in 0..MaxDiffItems} }

DiffReconSnapshot(mappings) ==
    [rule    |-> [id |-> 1, name |-> "orders", type |-> "RECONCILIATION"],
     details |-> [items |-> <<[measurementType |-> "EQUALITY"]>>,
                  columnMappings |-> mappings]]

InitDiffMappings ==
    /\ NoRemote
    /\ NoRequests
    /\ OVERRIDE_LABELS = FALSE
    /\ chk_a = << >> /\ chk_b = << >> /\ key_a = "?" /\ key_b = "?"
    /\ definition = << >> /\ ledgerMap = EmptyDict
    /\ pass1 = << >> /\ pass2 = << >>
    /\ diff_v1 \in {DiffReconSnapshot(m) : m \in DiffMappingLists(1)}
    /\ diff_latest \in {DiffReconSnapshot(m) : m \in DiffMappingLists(5)}
    /\ diff_new = << >>
    /\ diff_pc = "fetched"

\* Step_3_Sync_Recon_Policy_Labels.main: the two snapshots of a candidate are
\* extracted and compared
DiffMappings ==
    /\ diff_pc = "fetched"
    /\ LET v1_info     == extract_mappings_info(diff_v1)
           latest_info == extract_mappings_info(diff_latest)
       IN  diff_new' = find_new_mappings(v1_info, latest_info, "1",
                                         diff_latest.rule.name)
    /\ diff_pc' = "compared"
    /\ UNCHANGED <<remoteVars, fileVars, runVars, obsVars, keyVars, recVars,
                   reqVars, diff_v1, diff_latest>>

NextDiffMappings == DiffMappings

SpecDiffMappings == InitDiffMappings /\ [][NextDiffMappings]_vars

\* The column mappings of a snapshot
mappings_of(data) == Range(data.details.columnMappings)

\* The identity key of a column mapping
mapping_key(m) == get_column_key(m.leftColumnName, m.rightColumnName)

\* The identity keys of the baseline mappings
baseline_mapping_keys ==
    { mapping_key(b) : b \in mappings_of(diff_v1) }

\* C22: a mapping of the latest snapshot is reported exactly when its
\* identity key is not among the identity keys of the baseline mappings.
C22_MappingDiff ==
    diff_pc = "compared" =>
        \A m \in mappings_of(diff_latest) :
            reported(m) <=> mapping_key(m) \notin baseline_mapping_keys

\* The ledger dedup key of main() for a mapping of policy pid
full_key(pid, m) == pid \o "_" \o mapping_key(m)

\* The column names of a mapping
columns(m) == <<m.leftColumnName, m.rightColumnName>>

\* C28: two column mappings of the snapshots with different (left, right)
\* column names have different identity keys, and two different (policy,
\* left, right) have different ledger dedup keys.
C28_MappingKeysCollisionFree ==
    diff_pc = "compared" =>
        \A m1, m2 \in mappings_of(diff_v1) \cup mappings_of(diff_latest) :
            /\ columns(m1) # columns(m2) => mapping_key(m1) # mapping_key(m2)
            /\ \A p1, p2 \in {"1", "2"} :
                  <<p1, columns(m1)>> # <<p2, columns(m2)>>
                      => full_key(p1, m1) # full_key(p2, m2)

====
